---- MODULE Spec2Model ----
(***************************************************************************)
(* Chunked traversal of MCA stacks (PyMca5/PyMcaPhysics/xrf/McaStackView): *)
(* the slice algebra, the dense and the masked chunk planner, the chunk    *)
(* enumerator and the MaskedView/FullView buffer protocol.                 *)
(*                                                                         *)
(* Python values: None is the empty tuple and an int v that may be None is *)
(* <<v>>.  Python lists and tuples are sequences; a Python index i is the  *)
(* TLA+ index i+1 (operator At).  A numpy array is a record of its shape   *)
(* and of its elements in C order.                                         *)
(***************************************************************************)
EXTENDS Integers, Sequences, FiniteSets, TLC

\* ------------------------------------------------------------------ bounds
\* largest size of an order (non-channel) axis of a traversed stack
MaxDim == 3
\* largest size of the channel axis of a traversed stack
MaxChan == 2
\* largest requested row capacity (nMca) of a traversed stack
MaxCap == 4
\* largest number of items() generators started on one View
MaxPasses == 2
\* largest number of consumer mutations of yielded buffers per View
MaxMut == 1
\* the longest order axis and the largest capacity of the Views of sources
\* of both kinds
H5MaxDim == 3
H5MaxCap == 2
\* largest axis size and requested capacity of the planner-only exploration
PlanMaxDim == 3
PlanMaxCap == 5
\* largest axis length and largest step size of the slices of the slice algebra
SliceMaxLen == 4
SliceMaxStep == 3
\* chunks_in_memory: the largest dimension size and the most bytes of memory
MemMaxDim == 2
MemMaxBytes == 16
\* calls with arguments of any type: the largest int given
TypedMaxInt == 2
\* izipChunkItems: the most iterators, the most chunks of one of them, and
\* the most rounds that are followed
ZipMaxIters == 3
ZipMaxLen == 3
ZipMaxRounds == 4

\* ------------------------------------------------------------ Python basics
None == <<>>
Some(v) == <<v>>
\* the function f over 1..n as a tuple
Tup(f) == f \o <<>>
At(seq, i) == seq[i + 1]
Min(a, b) == IF a <= b THEN a ELSE b
Max(a, b) == IF a >= b THEN a ELSE b
Abs(a) == IF a < 0 THEN -a ELSE a
\* Python's a // b (floor division) for b # 0
FloorDiv(a, b) == IF b > 0 THEN a \div b ELSE (-a) \div (-b)
\* int(bool(x))
IntBool(x) == IF x # 0 THEN 1 ELSE 0

RECURSIVE SeqProd(_)
SeqProd(s) == IF s = <<>> THEN 1 ELSE Head(s) * SeqProd(Tail(s))

RECURSIVE Flatten(_)
Flatten(ss) == IF ss = <<>> THEN <<>> ELSE Head(ss) \o Flatten(Tail(ss))

SeqRange(s) == {s[i] : i \in DOMAIN s}
Reverse(s) == Tup([i \in 1..Len(s) |-> s[Len(s) + 1 - i]])
\* [x for x in s if x not in drop]
Without(s, drop) == SelectSeq(s, LAMBDA x : x \notin drop)
\* position (0-based) of x in s
IndexOf(s, x) == (CHOOSE i \in DOMAIN s : s[i] = x) - 1

\* sorted(s) for a tuple of distinct ints
RECURSIVE SortedSet(_)
SortedSet(S) ==
    IF S = {} THEN <<>>
    ELSE LET m == CHOOSE x \in S : \A y \in S : x <= y
         IN <<m>> \o SortedSet(S \ {m})
Sorted(s) == SortedSet(SeqRange(s))

\* slice(start, stop, step), each of them an int <<v>> or None
slice(start, stop, step) == [start |-> start, stop |-> stop, step |-> step]
sliceAll == slice(None, None, None)

\* slice.indices(n): the concrete (start, stop, step) over an axis of length n
SliceIndices(slc, n) ==
    LET step == IF slc.step = None THEN 1 ELSE slc.step[1]
        lower == IF step < 0 THEN -1 ELSE 0
        upper == IF step < 0 THEN n - 1 ELSE n
        clip(v) == IF v < 0 THEN Max(v + n, lower) ELSE Min(v, upper)
        start == IF slc.start = None
                 THEN (IF step < 0 THEN upper ELSE lower)
                 ELSE clip(slc.start[1])
        stop == IF slc.stop = None
                THEN (IF step < 0 THEN lower ELSE upper)
                ELSE clip(slc.stop[1])
    IN  <<start, stop, step>>

\* len(range(start, stop, step))
RangeLen(start, stop, step) ==
    IF step > 0
    THEN (IF stop > start THEN (stop - start + step - 1) \div step ELSE 0)
    ELSE (IF start > stop THEN (start - stop - step - 1) \div (-step) ELSE 0)

\* list(range(start, stop, step))
PyRange(start, stop, step) ==
    Tup([i \in 1..RangeLen(start, stop, step) |-> start + (i - 1) * step])

\* list(range(*t)) for t = (start, stop, step)
RangeOf(t) == PyRange(t[1], t[2], t[3])

\* list(range(n))[slc]
Expand(slc, n) == RangeOf(SliceIndices(slc, n))

\* [lst[i] for i in e]
Take(lst, e) == Tup([i \in DOMAIN e |-> At(lst, e[i])])

\* lst[slc] for a list
GetSlice(lst, slc) == Take(lst, Expand(slc, Len(lst)))

\* ------------------------------------------------------------ slice algebra
\* sliceLen without the max(0, ...)
sliceLenUnclamped(slc, n) ==
    LET t == SliceIndices(slc, n)
        one == IF t[3] < 0 THEN -1 ELSE 1
    IN  FloorDiv(t[2] - t[1] + t[3] - one, t[3])

sliceLen(slc, n) ==
    LET t == SliceIndices(slc, n)
        start == t[1]
        stop == t[2]
        step == t[3]
        one == IF step < 0 THEN -1 ELSE 1
    IN  Max(0, FloorDiv(stop - start + step - one, step))

\* slc.indices(n), with stop None again if slc.stop is None and step < 0
sliceNormalizeOf(slc, t) ==
    slice(Some(t[1]), IF slc.stop = None /\ t[3] < 0 THEN None ELSE Some(t[2]),
          Some(t[3]))
sliceNormalize(slc, n) == sliceNormalizeOf(slc, SliceIndices(slc, n))

\* stop = (stop-start+one)//step*step+start; start += one; None for -1
sliceReverseOf(start, stop, step, one) ==
    slice(Some(FloorDiv(stop - start + one, step) * step + start),
          IF start + one = -1 THEN None ELSE Some(start + one),
          Some(-step))
sliceReverseOfIndices(t) == sliceReverseOf(t[1], t[2], t[3], IF t[3] < 0 THEN 1 ELSE -1)
sliceReverse(slc, n) == sliceReverseOfIndices(SliceIndices(slc, n))

\* sliceComplement dropping the indices between the slice's ends, whatever
\* its step
sliceComplementOfSpan(slc, n) ==
    Without(PyRange(0, n, 1),
            SeqRange(GetSlice(PyRange(0, n, 1), slice(slc.start, slc.stop, None))))

\* lst1 = list(range(n)); lst2 = lst1[slc]; [i for i in lst1 if i not in lst2]
sliceComplement(slc, n) ==
    Without(PyRange(0, n, 1), SeqRange(GetSlice(PyRange(0, n, 1), slc)))

\* an index of one axis: a slice or a list of ints
SliceIdx(slc) == [kind |-> "slice", slc |-> slc]
ListIdx(lst) == [kind |-> "list", lst |-> lst]
\* chunkIndexPiece without the clipping of the piece's end to stop
chunkIndexPieceUnclipped(a, stop, step) ==
    [idx |-> slice(Some(a), IF a + step = -1 THEN None ELSE Some(a + step),
                   Some(IF step < 0 THEN -1 ELSE 1)),
     n |-> Abs(step)]

\* list(chunkIndexGen(start, stop, step)): pieces (slice, nElements)
\* the piece that starts at a: b = func(a+step, stop), n = abs(b-a)
chunkIndexPiece(a, stop, step) ==
    LET b == IF step < 0 THEN Max(a + step, stop) ELSE Min(a + step, stop)
    IN  [idx |-> slice(Some(a), IF b = -1 THEN None ELSE Some(b),
                       Some(IF step < 0 THEN -1 ELSE 1)),
         n |-> Abs(b - a)]

chunkIndexPieces(as, stop, step) ==
    Tup([i \in DOMAIN as |-> chunkIndexPiece(as[i], stop, step)])

chunkIndexGen(start, stop, step) ==
    chunkIndexPieces(PyRange(start, stop, step), stop, step)

possitive_index(i, n) ==
    IF i < 0 THEN i + Max(FloorDiv(-i, n), 1) * n ELSE i


\* ------------------------------------------------------------- numpy arrays
Array(shape, flat) == [shape |-> shape, flat |-> flat]
Size(shape) == SeqProd(shape)

\* C-order position of a coordinate, and back
RECURSIVE Ravel(_, _)
Ravel(shape, coord) ==
    IF shape = <<>> THEN 0
    ELSE Head(coord) * SeqProd(Tail(shape)) + Ravel(Tail(shape), Tail(coord))

RECURSIVE Unravel(_, _)
Unravel(shape, k) ==
    IF shape = <<>> THEN <<>>
    ELSE LET sz == SeqProd(Tail(shape))
         IN  <<k \div sz>> \o Unravel(Tail(shape), k % sz)

\* mask.nonzero(): one index list per dimension, elements taken in C order
NonzeroCoords(shape, ks) == Tup([j \in DOMAIN ks |-> Unravel(shape, ks[j])])
NonzeroLists(ndim, coords) ==
    Tup([d \in 1..ndim |-> Tup([j \in DOMAIN coords |-> coords[j][d]])])
Nonzero(mask) ==
    NonzeroLists(Len(mask.shape),
                 NonzeroCoords(mask.shape,
                               SelectSeq(Tup([i \in 1..Len(mask.flat) |-> i - 1]),
                                         LAMBDA k : At(mask.flat, k))))

\* itertools.product(*lists): the last list varies fastest
Cross(first, rest) ==
    Flatten(Tup([i \in DOMAIN first |->
                Tup([j \in DOMAIN rest |-> <<first[i]>> \o rest[j]])]))
RECURSIVE ItProduct(_)
ItProduct(lists) ==
    IF lists = <<>> THEN << <<>> >>
    ELSE Cross(Head(lists), ItProduct(Tail(lists)))

\* ------------------------------------------------------------ chunk planner
\* the axes of the default traversal order: all but chunkAxes, in 'C' order
\* (last dimension first) or in 'F' order (first dimension first)
DefaultAxesOrder(ndim, chunkAxes, defaultOrder) ==
    LET asc == Tup([i \in 1..ndim |-> i - 1])
        all == IF defaultOrder = "C" THEN Reverse(asc) ELSE asc
    IN  Without(all, SeqRange(chunkAxes))

\* the interpreters the module runs on (it imports six)
Interpreters == {"python2", "python3"}

\* CoerceCapacity with 2 for the least capacity
CoerceCapacityToTwo(nChunksMax, py) == Some(Max(nChunksMax[1], 2))

\* max(nChunksMax, 1), None when it raises TypeError: Python 2 orders None
\* before every int, Python 3 does not order None and an int
CoerceCapacity(nChunksMax, py) ==
    IF nChunksMax # None THEN Some(Max(nChunksMax[1], 1))
    ELSE IF py = "python2" THEN Some(1)
    ELSE None

\* the checks and the result of chunkIndexParameters, given its locals
\* AxesCorrespond that accepts an order that leaves axes out
AxesCorrespondIfContained(given, aAxesOrder) ==
    /\ SeqRange(given) \subseteq SeqRange(aAxesOrder)
    /\ Cardinality(SeqRange(given)) = Len(given)

\* list(sorted(axesOrder)) == list(sorted(aAxesOrder)), the axes of aAxesOrder
\* being distinct
AxesCorrespond(given, aAxesOrder) ==
    /\ Len(given) = Len(aAxesOrder)
    /\ SeqRange(given) = SeqRange(aAxesOrder)

chunkIndexParametersOf(nChunksMax, cAxes, aAxesOrder, axesOrder, given, chunkAxesSlice, py) ==
    IF Len(cAxes) # Len(chunkAxesSlice)
    THEN [err |-> "ValueError"]
    ELSE IF axesOrder # None /\ ~AxesCorrespond(given, aAxesOrder)
    THEN [err |-> "ValueError"]
    ELSE IF CoerceCapacity(nChunksMax, py) = None
    THEN [err |-> "TypeError"]
    ELSE [err |-> "",
          nChunksMax |-> CoerceCapacity(nChunksMax, py)[1],
          chunkAxes |-> cAxes,
          axesOrder |-> IF axesOrder = None THEN aAxesOrder ELSE given,
          chunkAxesSlice |-> chunkAxesSlice]

PositiveAxes(axs, ndim) == Tup([i \in DOMAIN axs |-> possitive_index(axs[i], ndim)])

chunkIndexParametersAxes(ndim, nChunksMax, cAxes, axesOrder, chunkAxesSlice, defaultOrder, py) ==
    chunkIndexParametersOf(nChunksMax, cAxes,
                           DefaultAxesOrder(ndim, cAxes, defaultOrder), axesOrder,
                           IF axesOrder = None THEN <<>>
                           ELSE PositiveAxes(axesOrder[1], ndim),
                           chunkAxesSlice, py)

chunkIndexParameters(shape, nChunksMax, chunkAxes, axesOrder, chunkAxesSlice, defaultOrder, py) ==
    chunkIndexParametersAxes(Len(shape), nChunksMax,
                             PositiveAxes(chunkAxes, Len(shape)), axesOrder,
                             chunkAxesSlice, defaultOrder, py)

\* EqualStep rounded down
EqualStepFloor(nAxis, n) == nAxis \div n

\* length of the pieces of the axis that is split: nChunksMax//nItems, then
\* equalised over the n pieces that are needed
EqualStep(nAxis, n) == (nAxis \div n) + IntBool(nAxis % n)
NPieces(nAxis, step) == (nAxis \div step) + IntBool(nAxis % step)

\* SplitStep without the division by the rows one index of the axis carries
SplitStepOfAxisAlone(nAxis, nChunksMax, nItems) ==
    EqualStep(nAxis, NPieces(nAxis, nChunksMax))

\* SplitStep without the equalisation of the pieces
SplitStepOfCapacity(nAxis, nChunksMax, nItems) == nChunksMax \div nItems

SplitStep(nAxis, nChunksMax, nItems) ==
    EqualStep(nAxis, NPieces(nAxis, nChunksMax \div nItems))

SplitPieces(nAxis, step) ==
    [idxAxis |-> chunkIndexGen(0, nAxis, step), factor |-> step]

\* AxisPieces that takes an axis whole when the axis alone fits
AxisPiecesOfAxisAlone(nAxis, nItems, nChunksMax) ==
    IF nAxis <= nChunksMax \/ nItems * nAxis <= nChunksMax
    THEN [idxAxis |-> << [idx |-> sliceAll, n |-> nAxis] >>, factor |-> nAxis]
    ELSE IF nItems > nChunksMax
    THEN [idxAxis |-> chunkIndexGen(0, nAxis, 1), factor |-> 1]
    ELSE SplitPieces(nAxis, SplitStep(nAxis, nChunksMax, nItems))

\* one turn of the loop over axesOrder: the pieces of the axis and the factor
\* it contributes to nBuffer
AxisPieces(nAxis, nItems, nChunksMax) ==
    IF nItems * nAxis <= nChunksMax
    THEN [idxAxis |-> << [idx |-> sliceAll, n |-> nAxis] >>, factor |-> nAxis]
    ELSE IF nItems > nChunksMax
    THEN [idxAxis |-> chunkIndexGen(0, nAxis, 1), factor |-> 1]
    ELSE SplitPieces(nAxis, SplitStep(nAxis, nChunksMax, nItems))

LoopTurn(acc, p) ==
    [nBuffer |-> acc.nBuffer * p.factor,
     chunkIndex2 |-> Append(acc.chunkIndex2, p.idxAxis)]

RECURSIVE fullChunkIndexLoop(_, _, _, _, _)
fullChunkIndexLoop(shape, nChunksMax, axesOrder, nItems, acc) ==
    IF axesOrder = <<>> THEN acc
    ELSE fullChunkIndexLoop(shape, nChunksMax, Tail(axesOrder),
                            nItems * At(shape, Head(axesOrder)),
                            LoopTurn(acc, AxisPieces(At(shape, Head(axesOrder)),
                                                     nItems, nChunksMax)))

\* the list of the (single) piece of each chunk axis
ChunkIndex1(shape, par) ==
    Tup([i \in DOMAIN par.chunkAxes |->
        << [idx |-> par.chunkAxesSlice[i],
            n |-> sliceLen(par.chunkAxesSlice[i], At(shape, par.chunkAxes[i]))] >>])

fullChunkIndexResult(shape, par, loop) ==
    [err |-> "",
     chunkIndex |-> ChunkIndex1(shape, par) \o Reverse(loop.chunkIndex2),
     chunkAxes |-> par.chunkAxes,
     axesOrder |-> par.axesOrder,
     nBuffer |-> loop.nBuffer]

fullChunkIndexOf(shape, par) ==
    IF par.err # "" THEN par
    ELSE fullChunkIndexResult(shape, par,
             fullChunkIndexLoop(shape, par.nChunksMax, par.axesOrder, 1,
                                [nBuffer |-> 1, chunkIndex2 |-> <<>>]))

fullChunkIndex(shape, nChunksMax, chunkAxes, axesOrder, chunkAxesSlice, py) ==
    fullChunkIndexOf(shape,
        chunkIndexParameters(shape, nChunksMax, chunkAxes, axesOrder,
                             chunkAxesSlice, "C", py))

\* one chunk descriptor (index, shape, nChunks) of chunkIndexProduct: pos[a]
\* is the place of axis a-1 in axes = chunkAxes + axesOrder[::-1]
ProductChunk(idxChunk, pos, axesOrder) ==
    [idx |-> Tup([a \in DOMAIN pos |-> SliceIdx(At(idxChunk, pos[a]).idx)]),
     shape |-> Tup([a \in DOMAIN pos |-> At(idxChunk, pos[a]).n]),
     n |-> SeqProd(Tup([i \in DOMAIN axesOrder |->
                      At(idxChunk, pos[axesOrder[i] + 1]).n]))]

ProductChunks(prod, pos, axesOrder) ==
    Tup([k \in DOMAIN prod |-> ProductChunk(prod[k], pos, axesOrder)])

AxisPositions(axes) == Tup([a \in 1..Len(axes) |-> IndexOf(axes, a - 1)])

\* chunkIndexProduct with the first list of the product varying fastest
chunkIndexProductFirstFastest(chunkIndex, chunkAxes, axesOrder) ==
    ProductChunks(Tup([k \in DOMAIN ItProduct(Reverse(chunkIndex)) |->
                         Reverse(ItProduct(Reverse(chunkIndex))[k])]),
                  AxisPositions(chunkAxes \o Reverse(axesOrder)), axesOrder)

\* list(chunkIndexProduct(chunkIndex, chunkAxes, axesOrder))
chunkIndexProduct(chunkIndex, chunkAxes, axesOrder) ==
    ProductChunks(ItProduct(chunkIndex),
                  AxisPositions(chunkAxes \o Reverse(axesOrder)), axesOrder)

IsConsecutive(srt) == \A i \in 1..(Len(srt) - 1) : srt[i + 1] - srt[i] = 1

intListIndexAxis(shape, axes) ==
    IF Len(axes) = 0 THEN None
    ELSE IF Len(axes) = 1 THEN Some(axes[1])
    ELSE IF IsConsecutive(Sorted(axes)) THEN Some(Sorted(axes)[1])
    ELSE Some(0)

\* lst.insert(i, x) for 0 <= i
ListInsert(lst, i, x) ==
    IF i >= Len(lst) THEN Append(lst, x)
    ELSE SubSeq(lst, 1, i) \o <<x>> \o SubSeq(lst, i + 1, Len(lst))

\* number of batches of the masked planner
MaskedNChunks(nAxis, nChunksMax) ==
    (nAxis \div nChunksMax) + IntBool(nAxis % nChunksMax)

\* the shape after indexing, without the dimension of the int lists: the
\* sliced lengths of the axes that are not in axesOrder
MaskedChunkShape(shape, par) ==
    Tup([i \in DOMAIN par.chunkAxes |->
        sliceLen(par.chunkAxesSlice[IndexOf(par.chunkAxes, Sorted(par.chunkAxes)[i]) + 1],
                 At(shape, Sorted(par.chunkAxes)[i]))])

\* MaskedChunk with the whole coordinate lists in place of the batch's part
MaskedChunkOfWholeList(ndim, par, maskIndex, chunkShape, lstAxis, p) ==
    [idx |-> Tup([a \in 1..ndim |->
                IF a - 1 \in SeqRange(par.axesOrder)
                THEN ListIdx(maskIndex[IndexOf(par.axesOrder, a - 1) + 1])
                ELSE SliceIdx(par.chunkAxesSlice[IndexOf(par.chunkAxes, a - 1) + 1])]),
     shape |-> ListInsert(chunkShape, lstAxis[1], p.n),
     n |-> p.n]

\* the chunk descriptor of the batch p = (slice, n) of the mask's coordinates
MaskedChunk(ndim, par, maskIndex, chunkShape, lstAxis, p) ==
    [idx |-> Tup([a \in 1..ndim |->
                IF a - 1 \in SeqRange(par.axesOrder)
                THEN ListIdx(GetSlice(maskIndex[IndexOf(par.axesOrder, a - 1) + 1],
                                      p.idx))
                ELSE SliceIdx(par.chunkAxesSlice[IndexOf(par.chunkAxes, a - 1) + 1])]),
     shape |-> ListInsert(chunkShape, lstAxis[1], p.n),
     n |-> p.n]

maskedChunkIndexList(ndim, par, maskIndex, chunkShape, lstAxis, nChunks, pieces) ==
    IF Len(pieces) > nChunks THEN [err |-> "IndexError"]
    ELSE [err |-> "",
          chunkIndex |-> Tup([i \in 1..nChunks |->
                            MaskedChunk(ndim, par, maskIndex, chunkShape, lstAxis,
                                        pieces[i])]),
          chunkAxes |-> par.chunkAxes,
          axesOrder |-> par.axesOrder,
          nBuffer |-> par.nChunksMax]

maskedChunkIndexMask(shape, par, maskIndex) ==
    maskedChunkIndexList(Len(shape), par, maskIndex, MaskedChunkShape(shape, par),
                         intListIndexAxis(shape, par.axesOrder),
                         MaskedNChunks(Len(maskIndex[1]), par.nChunksMax),
                         chunkIndexGen(0, Len(maskIndex[1]), par.nChunksMax))

\* a mask given as a tuple or a list of int lists, one list per order axis
IndexLists(lists) == [lists |-> lists]
\* isinstance(mask, (list, tuple))
IsIndexLists(mask) == "lists" \in DOMAIN mask

\* mask.ndim is read first, and a tuple or a list has no such attribute
maskedChunkIndexOf(shape, par, mask) ==
    IF par.err # "" THEN par
    ELSE IF IsIndexLists(mask) THEN [err |-> "AttributeError"]
    ELSE IF Len(par.axesOrder) # Len(mask.shape) THEN [err |-> "ValueError"]
    ELSE maskedChunkIndexMask(shape, par,
                              IF IsIndexLists(mask) THEN mask.lists
                              ELSE Nonzero(mask))

maskedChunkIndex(shape, nChunksMax, mask, chunkAxes, axesOrder, chunkAxesSlice, py) ==
    maskedChunkIndexOf(shape,
        chunkIndexParameters(shape, nChunksMax, chunkAxes, axesOrder,
                             chunkAxesSlice, "F", py),
        mask)

\* ----------------------------------------------------------- numpy indexing
\* the source indices one axis of length n contributes for its index
AxisIndices(entry, n) ==
    IF entry.kind = "slice" THEN Expand(entry.slc, n) ELSE entry.lst

\* the axes the dimensions of data[idx] come from, -1 standing for the
\* dimension of the int lists: it comes first, unless the lists sit on
\* adjacent axes, and then it takes their place
ResultDims(lstAxes, slcAxes) ==
    IF lstAxes = <<>> THEN slcAxes
    ELSE IF \A i \in 1..(Len(lstAxes) - 1) : lstAxes[i + 1] = lstAxes[i] + 1
    THEN SelectSeq(slcAxes, LAMBDA a : a < lstAxes[1]) \o <<-1>>
             \o SelectSeq(slcAxes, LAMBDA a : a > lstAxes[1])
    ELSE <<-1>> \o slcAxes

\* element c of the result is element source of data
IndexSource(c, inds, dimOf) == Tup([a \in DOMAIN inds |-> At(inds[a], At(c, dimOf[a]))])

IndexMapSrc(shape, rshape, inds, dimOf) ==
    [shape |-> rshape,
     src |-> Tup([k \in 1..Size(rshape) |->
                Ravel(shape, IndexSource(Unravel(rshape, k - 1), inds, dimOf))])]

IndexMapDims(shape, idx, dims, inds) ==
    IndexMapSrc(shape,
                Tup([i \in DOMAIN dims |->
                    IF dims[i] = -1
                    THEN Len(inds[CHOOSE a \in DOMAIN idx : idx[a].kind = "list"])
                    ELSE Len(inds[dims[i] + 1])]),
                inds,
                Tup([a \in DOMAIN idx |->
                    IF idx[a].kind = "list" THEN IndexOf(dims, -1)
                    ELSE IndexOf(dims, a - 1)]))

\* data[idx] for a full-dimensional index of slices and int lists: the shape
\* of the result and, for each of its elements in C order, the C-order
\* position in data it comes from
IndexMap(shape, idx) ==
    IndexMapDims(shape, idx,
                 ResultDims(SelectSeq(Tup([a \in DOMAIN idx |-> a - 1]),
                                      LAMBDA a : At(idx, a).kind = "list"),
                            SelectSeq(Tup([a \in DOMAIN idx |-> a - 1]),
                                      LAMBDA a : At(idx, a).kind = "slice")),
                 Tup([a \in DOMAIN idx |-> AxisIndices(idx[a], shape[a])]))

\* numpy arrays read and written through an index map
Gather(arr, im) == Array(im.shape, Tup([k \in DOMAIN im.src |-> At(arr.flat, im.src[k])]))
LastHit(src, j) ==
    IF \E k \in DOMAIN src : src[k] = j
    THEN CHOOSE k \in DOMAIN src : src[k] = j /\ \A l \in (k + 1)..Len(src) : src[l] # j
    ELSE 0
Scatter(arr, im, val) ==
    Array(arr.shape,
          Tup([j \in DOMAIN arr.flat |->
              IF LastHit(im.src, j - 1) = 0 THEN arr.flat[j]
              ELSE val.flat[LastHit(im.src, j - 1)]]))

\* data[idx]
GetItem(arr, idx) == Gather(arr, IndexMap(arr.shape, idx))

\* data[idx] = val is possible (no broadcasting is needed)
CanSetItem(arr, idx, val) == IndexMap(arr.shape, idx).shape = val.shape

\* data after data[idx] = val
SetItem(arr, idx, val) == Scatter(arr, IndexMap(arr.shape, idx), val)

\* numpy.transpose(arr, axes)
TransposeTo(arr, rshape, pos) ==
    Array(rshape,
          Tup([k \in 1..Size(rshape) |->
              At(arr.flat, Ravel(arr.shape, Take(Unravel(rshape, k - 1), pos)))]))
Transpose(arr, axes) ==
    TransposeTo(arr, Tup([i \in DOMAIN axes |-> At(arr.shape, axes[i])]),
                AxisPositions(axes))

\* arr.reshape(shape) is possible, and its result
CanReshape(arr, shape) == Size(arr.shape) = Size(shape)
Reshape(arr, shape) == Array(shape, arr.flat)

\* numpy.argsort(axes) of a permutation
Argsort(axes) == Tup([i \in DOMAIN axes |-> IndexOf(axes, i - 1)])

\* --------------------------------------------------------------- the View
VARIABLES
    args,       \* the arguments MaskedView is constructed with
    data,       \* the source array (args' data)
    view,       \* the fields of the View object
    heap,       \* the arrays allocated by numpy.empty, in allocation order
    gen,        \* the frame of the generator the last items() call returned
    consumer,   \* the buffer views the consumer holds, and its mutations
    log,        \* the reads and write-backs of the current generator
    pass,       \* the number of items() calls so far
    ret         \* what the last call of a function of the module returned

vars == <<args, data, view, heap, gen, consumer, log, pass, ret>>

\* seq[i] with Python's negative indices
PyAt(seq, i) == IF i < 0 THEN At(seq, i + Len(seq)) ELSE At(seq, i)

NoView ==
    [built |-> FALSE, err |-> "", chunkIndex |-> <<>>, chunkAxes |-> <<>>,
     axesOrder |-> <<>>, masked |-> FALSE, mcaSlice |-> sliceAll, mcaAxis |-> 0,
     bufferShape |-> <<0, 0>>, buffer |-> 0, readonly |-> TRUE, isNdarray |-> TRUE]

\* MaskedView.__init__ followed by ChunkedView.__init__; buffer 0 is None, nd
\* is isinstance(data, numpy.ndarray)
MaskedViewInit(dat, mask, nMca, mcaAxisArg, mcaSliceArg, axesOrder, readonly, py, nd) ==
    LET mcaAxis == IF mcaAxisArg = None THEN -1 ELSE mcaAxisArg[1]
        mcaSlice == IF mcaSliceArg = None THEN sliceAll ELSE mcaSliceArg[1]
        chunkInfo ==
            IF mask = None
            THEN fullChunkIndex(dat.shape, nMca, <<mcaAxis>>, axesOrder, <<mcaSlice>>,
                                py)
            ELSE maskedChunkIndex(dat.shape, nMca, mask[1], <<mcaAxis>>, axesOrder,
                                  <<mcaSlice>>, py)
        n2 == PyAt(dat.shape, mcaAxis)
        nChan == sliceLen(mcaSlice, n2)
    IN  IF chunkInfo.err # "" THEN [NoView EXCEPT !.err = chunkInfo.err]
        ELSE [built |-> TRUE, err |-> "",
              chunkIndex |-> chunkInfo.chunkIndex,
              chunkAxes |-> chunkInfo.chunkAxes,
              axesOrder |-> chunkInfo.axesOrder,
              masked |-> mask # None,
              mcaSlice |-> mcaSlice,
              mcaAxis |-> mcaAxis,
              bufferShape |-> <<chunkInfo.nBuffer, nChan>>,
              buffer |-> 0,
              readonly |-> readonly,
              isNdarray |-> nd]

\* ChunkedView.idxFull and ChunkedView.idxFullComplement: a full slice on
\* every axis but the channel axis, which gets the index chan
idxFullOf(v, ndim, chan) ==
    Tup([a \in 1..ndim |->
           IF a - 1 = (IF v.mcaAxis < 0 THEN v.mcaAxis + ndim ELSE v.mcaAxis)
           THEN chan ELSE SliceIdx(sliceAll)])

\* MaskedView._idxFullMask: the index lists of the mask on the order axes
idxFullMask(idx, axesOrder, maskIndex) ==
    Tup([a \in DOMAIN idx |->
           IF a - 1 \in SeqRange(axesOrder)
           THEN ListIdx(maskIndex[IndexOf(axesOrder, a - 1) + 1])
           ELSE idx[a]])

\* MaskedView.idxFull
idxFull(v, ndim, mask) ==
    IF v.masked
    THEN idxFullMask(idxFullOf(v, ndim, SliceIdx(v.mcaSlice)), v.axesOrder,
                     Nonzero(mask[1]))
    ELSE idxFullOf(v, ndim, SliceIdx(v.mcaSlice))

\* list(MaskedView.idxFullComplement): for a masked View one index for every
\* channel i outside the channel slice, with the index lists of ~mask and the
\* int i on the channel axis; else the one index of ChunkedView
idxFullComplement(v, shape, mask) ==
    LET chans == sliceComplement(v.mcaSlice, PyAt(shape, v.mcaAxis))
        idx == idxFullOf(v, Len(shape), ListIdx(chans))
        unmasked == Array(mask[1].shape,
                          Tup([j \in DOMAIN mask[1].flat |-> ~mask[1].flat[j]]))
    IN  IF v.masked
        THEN Tup([k \in DOMAIN chans |->
                    idxFullMask(idxFullOf(v, Len(shape),
                                          [kind |-> "int", i |-> chans[k]]),
                                v.axesOrder, Nonzero(unmasked))])
        ELSE <<idx>>

\* post_copy with the sense of readonly inverted
PostCopyInverted(v) == v.readonly

\* post_copy without regard to readonly
PostCopyAlways(v) == TRUE

\* post_copy of _prepareAccess
PostCopy(v) == ~v.readonly
\* _prepareAccess allocating a buffer on every call
MustAllocateAlways(v) == TRUE

\* _prepareAccess allocates the buffer when the View has none
MustAllocate(v) == v.buffer = 0

\* numpy.empty(shape): every element holds the arbitrary value g
EmptyArray(shape, g) == Array(shape, Tup([k \in 1..Size(shape) |-> g]))
Garbage == {0, 1}

\* the locals items() computes before its loop
TransposeAxes(v, shape) ==
    IF v.masked
    THEN (IF intListIndexAxis(shape, v.axesOrder) = Some(0) THEN <<0, 1>> ELSE <<1, 0>>)
    ELSE Sorted(v.axesOrder) \o v.chunkAxes

ITransposeAxes(transposeAxes) == Argsort(transposeAxes)
\* a chunk generator that is spent after the first items() call
ChunkGeneratorOnce(v) ==
    IF pass > 1 THEN <<>>
    ELSE IF v.masked THEN v.chunkIndex
    ELSE chunkIndexProduct(v.chunkIndex, v.chunkAxes, v.axesOrder)

ChunkGenerator(v) ==
    IF v.masked THEN v.chunkIndex
    ELSE chunkIndexProduct(v.chunkIndex, v.chunkAxes, v.axesOrder)

NoGen ==
    [state |-> "none", k |-> 0, post_copy |-> FALSE, chunks |-> <<>>,
     transposeAxes |-> <<>>, itransposeAxes |-> <<>>, buffer |-> 0, nChan |-> 0,
     h5pyMultiList |-> FALSE, axesOrder |-> <<>>]

\* a reference to buffer[:rows, :] of the array number buf of the heap
NoRef == [buf |-> 0, rows |-> 0]
RefIdx(ref) == <<SliceIdx(slice(None, Some(ref.rows), None)), SliceIdx(sliceAll)>>
Deref(hp, ref) == GetItem(hp[ref.buf], RefIdx(ref))

\* value = buffer[:nMca, :]
ValueRef(hp, buf, nMca) ==
    [buf |-> buf, rows |-> Len(Expand(slice(None, Some(nMca), None), hp[buf].shape[1]))]
\* the read without the transposition
ReadChunkUntransposed(dat, chunk, transposeAxes, nChan) ==
    Reshape(GetItem(dat, chunk.idx), <<chunk.n, nChan>>)

\* numpy.transpose(data[idxChunk], transposeAxes).reshape(nMca, nChan)
ReadChunk(dat, chunk, transposeAxes, nChan) ==
    Reshape(Transpose(GetItem(dat, chunk.idx), transposeAxes), <<chunk.n, nChan>>)

CanReadChunk(dat, chunk, transposeAxes, nChan) ==
    LET got == GetItem(dat, chunk.idx)
    IN  /\ Len(got.shape) = Len(transposeAxes)
        /\ Size(got.shape) = chunk.n * nChan
\* the write-back transposing with transposeAxes in place of its inverse
WriteValueUninverted(value, chunk, transposeAxes, itransposeAxes) ==
    Transpose(Reshape(value, Tup([i \in DOMAIN transposeAxes |->
                                At(chunk.shape, transposeAxes[i])])),
              transposeAxes)

\* numpy.transpose(value.reshape(idxShape), itransposeAxes), idxShape being
\* the chunk's shape taken in the order transposeAxes
WriteValue(value, chunk, transposeAxes, itransposeAxes) ==
    Transpose(Reshape(value, Tup([i \in DOMAIN transposeAxes |->
                                At(chunk.shape, transposeAxes[i])])),
              itransposeAxes)

CanWriteChunk(dat, value, chunk, transposeAxes, itransposeAxes) ==
    /\ Len(chunk.shape) = Len(transposeAxes)
    /\ Size(value.shape) = Size(chunk.shape)
    /\ CanSetItem(dat, chunk.idx,
                  WriteValue(value, chunk, transposeAxes, itransposeAxes))

\* ---- the access of a source that takes one int list per index at most
\* zip(*lstIndices): the number of coordinates the lists of axesList give
h5pyRows(idx, axesList) ==
    IF axesList = <<>> THEN 0
    ELSE LET lens == {Len(At(idx, axesList[i]).lst) : i \in DOMAIN axesList}
         IN  CHOOSE m \in lens : \A n \in lens : m <= n

\* the index with the first coordinate on every axis of axesList but the
\* first of them
h5pyRowIdxOfFirstAxis(idx, axesList, iMca) ==
    Tup([a \in DOMAIN idx |->
           IF a - 1 = axesList[1] THEN ListIdx(<<At(idx[a].lst, iMca)>>)
           ELSE IF a - 1 \in SeqRange(axesList) THEN ListIdx(<<At(idx[a].lst, 0)>>)
           ELSE idx[a]])

\* idx after idx[axis] = v for the axes of axesList and the iMca-th of their
\* coordinates. The int on an axis is held as a list of one int: the
\* elements addressed and their order are those of the int, the result has
\* dimensions of length one more
h5pyRowIdx(idx, axesList, iMca) ==
    Tup([a \in DOMAIN idx |->
           IF a - 1 \in SeqRange(axesList) THEN ListIdx(<<At(idx[a].lst, iMca)>>)
           ELSE idx[a]])

\* the source positions the turns of the loop address, turn after turn:
\* those of data[tuple(idx)] for the coordinates 0..nRows-1
h5pyIndexMap(shape, idx, axesList, nRows) ==
    [shape |-> <<nRows>>,
     src |-> Flatten(Tup([r \in 1..nRows |->
                            IndexMap(shape, h5pyRowIdx(idx, axesList, r - 1)).src]))]

\* value[iMca, :] = data[tuple(idx)] and data[tuple(idx)] = value[iMca, :]
\* raise in no turn: value has the row, the row has the length of the
\* source's answer
CanH5pyMultiList(dat, value, idx, axesList) ==
    \A iMca \in 0..(h5pyRows(idx, axesList) - 1) :
        /\ iMca < value.shape[1]
        /\ Len(IndexMap(dat.shape, h5pyRowIdx(idx, axesList, iMca)).src) = value.shape[2]

\* value after the rows got were stored in its first rows
WithFirstRows(value, got) ==
    Array(value.shape, got.flat \o SubSeq(value.flat, Len(got.flat) + 1, Len(value.flat)))

\* h5pyMultiListGet: value after its loop
h5pyMultiListGet(dat, value, idx, axesList) ==
    WithFirstRows(value,
                  Gather(dat, h5pyIndexMap(dat.shape, idx, axesList,
                                           h5pyRows(idx, axesList))))

\* h5pyMultiListSet: data after its loop, a later turn storing over an
\* earlier one
h5pyMultiListSet(dat, value, idx, axesList) ==
    Scatter(dat, h5pyIndexMap(dat.shape, idx, axesList, h5pyRows(idx, axesList)), value)

\* what the consumer does to an element of a yielded buffer
Mutated(v) == -v


\* ------------------------------------------------------------- the inputs
\* the source array: element number j (C order, from 1) holds j
Orig(shape) == Array(shape, Tup([j \in 1..Size(shape) |-> j]))

\* the non-channel axes of an ndim-dimensional stack with channel axis p
OrderAxes(ndim, p) == SelectSeq(Tup([a \in 1..ndim |-> a - 1]), LAMBDA a : a # p)

\* the shapes with nOrder order axes of sizes lo..hi and the channel axis,
\* of one of the sizes chans, at position p
Stacks(nOrder, lo, hi, chans) ==
    {[shape |-> ListInsert(o, p, c), p |-> p] :
        o \in [1..nOrder -> lo..hi], c \in chans, p \in 0..nOrder}

\* mcaAxis as the caller gives it: the last axis is the default (None)
McaAxisArgs(ndim, p) == IF p = ndim - 1 THEN {None} ELSE {Some(p)}

\* axesOrder as the caller gives it: the default, or the order axes
\* ascending, or descending
AxesOrderArg(ndim, p, order) ==
    IF order = "default" THEN None
    ELSE IF order = "ascending" THEN Some(OrderAxes(ndim, p))
    ELSE Some(Reverse(OrderAxes(ndim, p)))

\* the boolean mask over the order axes (in the order ao, ascending when ao
\* is None) that selects the elements whose C-order position is in R modulo 3
MaskOf(shape, p, ao, R) ==
    LET eff == IF ao = None THEN OrderAxes(Len(shape), p) ELSE ao[1]
        mshape == Tup([d \in DOMAIN eff |-> At(shape, eff[d])])
    IN  Array(mshape, Tup([k \in 1..Size(mshape) |-> ((k - 1) % 3) \in R]))

MaskArgs(shape, p, ao, patterns) ==
    {None} \cup {Some(MaskOf(shape, p, ao, R)) : R \in patterns}

McaSlices == {Some(slice(Some(1), None, None)), Some(slice(None, None, Some(-1)))}

\* the stacks with one order axis of a size up to MaxDim, and those with two
\* order axes of the sizes 2 and MaxDim
Stacks1 == Stacks(1, 1, MaxDim, {MaxChan})
Stacks2 ==
    {[shape |-> ListInsert(o, p, MaxChan), p |-> p] :
        o \in {<<2, MaxDim>>, <<MaxDim, 2>>}, p \in 0..2}

\* args is one of the argument lists over the given choices
ArgsFrom(stacks, caps, slices, orders, patterns, readonlys) ==
    \E st \in stacks, c \in caps, sl \in slices, ro \in readonlys, order \in orders :
        \E ax \in McaAxisArgs(Len(st.shape), st.p),
           mk \in MaskArgs(st.shape, st.p,
                           AxesOrderArg(Len(st.shape), st.p, order), patterns) :
            args = [shape |-> st.shape, nMca |-> Some(c), mcaAxis |-> ax,
                    mcaSlice |-> sl,
                    axesOrder |-> AxesOrderArg(Len(st.shape), st.p, order),
                    mask |-> mk, readonly |-> ro]

\* writable Views of every stack and capacity; with a channel slice; with an
\* explicit traversal order; and read-only Views
ViewArgs ==
    \/ ArgsFrom(Stacks1 \cup Stacks2, 1..MaxCap, {None}, {"default"},
                {{1, 2}}, {FALSE})
    \/ ArgsFrom(Stacks1 \cup Stacks2, {MaxCap \div 2}, McaSlices, {"default"},
                {{1, 2}}, {FALSE})
    \/ ArgsFrom(Stacks2, {MaxCap \div 2}, {None}, {"ascending", "descending"},
                {{1, 2}}, {FALSE})
    \/ ArgsFrom(Stacks1 \cup Stacks2, {MaxCap \div 2}, {None}, {"default"},
                {{1, 2}}, {TRUE})

\* writable Views, dense and masked, of stacks with one order axis and with
\* two, the channel axis at every position: every capacity, and a channel
\* slice or an explicit traversal order with one capacity
H5Stacks ==
    Stacks(1, H5MaxDim, H5MaxDim, {MaxChan})
        \cup {[shape |-> ListInsert(<<2, H5MaxDim>>, p, MaxChan), p |-> p] : p \in 0..2}
H5Args ==
    \/ ArgsFrom(H5Stacks, 1..H5MaxCap, {None}, {"default"}, {{1, 2}}, {FALSE})
    \/ ArgsFrom(H5Stacks, {2}, McaSlices, {"default", "ascending"}, {{0, 2}}, {FALSE})

\* a stack of 100 spectra of 10 channels traversed with capacity 30, and one
\* of 51 x 2 spectra of one channel traversed with capacity 80
ScenarioArgs ==
    \/ args = [shape |-> <<100, 10>>, nMca |-> Some(30), mcaAxis |-> Some(1),
               mcaSlice |-> None, axesOrder |-> None, mask |-> None,
               readonly |-> TRUE]
    \/ args = [shape |-> <<51, 2, 1>>, nMca |-> Some(80), mcaAxis |-> None,
               mcaSlice |-> None, axesOrder |-> None, mask |-> None,
               readonly |-> TRUE]

PlanArgs ==
    \/ ArgsFrom(Stacks(1, 0, PlanMaxDim + 4, {1}) \cup Stacks(2, 0, PlanMaxDim, {1})
                    \cup Stacks(3, 0, PlanMaxDim, {1}),
                (-1)..PlanMaxCap, {None}, {"default", "ascending", "descending"},
                {{0, 1, 2}, {1, 2}, {0}, {}}, {TRUE})
    \/ ScenarioArgs

\* the argument lists of a constructor call on the stack st with all its
\* rows masked in or the mask m: the capacity left out; the mask given as index
\* lists, of equal lengths and with the first list one index short; an order
\* that is not a permutation of the order axes A, or names them from the end;
\* a mask of one dimension more or less than there are order axes; and
\* writable Views, as in ViewArgs
CtorCalls(st, ndim, A, m) ==
    LET call(nMca, axesOrder, mask, readonly) ==
            [shape |-> st.shape, nMca |-> nMca,
             mcaAxis |-> IF st.p = ndim - 1 THEN None ELSE Some(st.p),
             mcaSlice |-> None, axesOrder |-> axesOrder, mask |-> mask,
             readonly |-> readonly]
        lists == Nonzero(m)
    IN  \/ \E mask \in {None, Some(m)} :
              args = call(None, None, mask, TRUE)
        \/ \E c \in 1..2 :
              \/ args = call(Some(c), None, Some(IndexLists(lists)), TRUE)
              \/ /\ Len(A) > 1 /\ lists[1] # <<>>
                 /\ args = call(Some(c), None,
                                Some(IndexLists([lists EXCEPT ![1] = Tail(@)])), TRUE)
        \/ \E given \in {Tail(A), A \o <<A[1]>>, <<st.p>> \o Tail(A), A \o <<ndim>>,
                          <<A[1] - 2 * ndim>> \o Tail(A),
                          Tup([i \in DOMAIN A |-> A[i] - ndim])} :
              args = call(Some(2), Some(given), None, TRUE)
        \/ \E mshape \in {m.shape \o <<1>>, Tail(m.shape)} :
              args = call(Some(2), None, Some(Array(mshape, m.flat)), TRUE)
        \/ \E mask \in {None, Some(m)} :
              args = call(Some(2), None, mask, FALSE)

CtorArgs ==
    \E st \in Stacks(1, 2, MaxDim, {1}) \cup Stacks(2, 1, 2, {1}) :
        CtorCalls(st, Len(st.shape), OrderAxes(Len(st.shape), st.p),
                  MaskOf(st.shape, st.p, None, {1, 2}))

\* no function of the module was called yet
NoRet == [fn |-> "", value |-> None]

Fresh ==
    /\ data = Orig(args.shape)
    /\ view = NoView
    /\ heap = <<>>
    /\ gen = NoGen
    /\ consumer = [held |-> NoRef, kept |-> NoRef, nmut |-> 0]
    /\ log = <<>>
    /\ pass = 0
    /\ ret = NoRet

Init == ViewArgs /\ Fresh
InitH5 == H5Args /\ Fresh
InitPlan == PlanArgs /\ Fresh
InitCtor == CtorArgs /\ Fresh

\* ------------------------------------------------------------ the actions
\* MaskedView(data, mask, nMca, mcaAxis, mcaSlice, axesOrder, readonly=...),
\* nd telling whether data is a numpy.ndarray
ConstructOn(nd) ==
    /\ ~view.built
    /\ view.err = ""
    /\ \E py \in Interpreters :
          view' = MaskedViewInit(data, args.mask, args.nMca, args.mcaAxis,
                                 args.mcaSlice, args.axesOrder, args.readonly, py, nd)
    /\ UNCHANGED <<args, data, heap, gen, consumer, log, pass, ret>>

\* the View of a numpy.ndarray
Construct == ConstructOn(TRUE)
\* the View of a source that is no numpy.ndarray, such as a h5py.Dataset
ConstructH5 == ConstructOn(FALSE)

\* view.items(): a new generator, none of its code has run yet
ItemsCall ==
    /\ view.built
    /\ gen.state \in {"none", "finished", "closed"}
    /\ pass < MaxPasses
    /\ gen' = [NoGen EXCEPT !.state = "created"]
    /\ pass' = pass + 1
    /\ log' = <<>>
    /\ UNCHANGED <<args, data, view, heap, consumer, ret>>

\* the locals of items() once the code before its loop has run
GenLocals(v, shape, tAxes) ==
    [state |-> "created", k |-> -1,
     post_copy |-> PostCopy(v),
     chunks |-> ChunkGenerator(v),
     transposeAxes |-> tAxes,
     itransposeAxes |-> ITransposeAxes(tAxes),
     buffer |-> v.buffer,
     nChan |-> v.bufferShape[2],
     h5pyMultiList |-> v.masked /\ ~v.isNdarray /\ Len(v.axesOrder) > 1,
     axesOrder |-> v.axesOrder]

\* the generator ends with state st: the consumer is yielded nothing
EndWith(st, hp, g, lg) ==
    /\ gen' = [g EXCEPT !.state = st]
    /\ heap' = hp
    /\ log' = lg
    /\ consumer' = [consumer EXCEPT !.held = NoRef, !.kept = consumer.held]

\* the turn of the loop for chunk number g.k: value = buffer[:nMca, :], the
\* read into value, the yield
LoopBody(hp, dat, g, lg, chunk, ref) ==
    IF ~(IF g.h5pyMultiList
         THEN CanH5pyMultiList(dat, Deref(hp, ref), chunk.idx, g.axesOrder)
         ELSE CanReadChunk(dat, chunk, g.transposeAxes, g.nChan) /\ ref.rows = chunk.n)
    THEN EndWith("raised", hp, g, lg)
    ELSE /\ gen' = [g EXCEPT !.state = "suspended"]
         /\ heap' = [hp EXCEPT ![ref.buf] =
                        SetItem(@, RefIdx(ref),
                                IF g.h5pyMultiList
                                THEN h5pyMultiListGet(dat, Deref(hp, ref), chunk.idx,
                                                      g.axesOrder)
                                ELSE ReadChunk(dat, chunk, g.transposeAxes, g.nChan))]
         /\ log' = Append(lg, [op |-> "read", k |-> g.k])
         /\ consumer' = [consumer EXCEPT !.held = ref, !.kept = consumer.held]

\* the for statement: the next chunk of chunkGenerator, or the end
LoopNext(hp, dat, g, lg) ==
    /\ data' = dat
    /\ IF g.k + 1 >= Len(g.chunks)
       THEN EndWith("finished", hp, [g EXCEPT !.k = g.k + 1], lg)
       ELSE LoopBody(hp, dat, [g EXCEPT !.k = g.k + 1], lg, At(g.chunks, g.k + 1),
                     ValueRef(hp, g.buffer, At(g.chunks, g.k + 1).n))

\* after the yield: the write-back of value at the chunk's index
PostYield(hp, g, chunk, value) ==
    IF ~g.post_copy THEN LoopNext(hp, data, g, log)
    ELSE IF g.h5pyMultiList
    THEN (IF ~CanH5pyMultiList(data, value, chunk.idx, g.axesOrder)
          THEN data' = data /\ EndWith("raised", hp, g, log)
          ELSE LoopNext(hp, h5pyMultiListSet(data, value, chunk.idx, g.axesOrder),
                        g, Append(log, [op |-> "write", k |-> g.k])))
    ELSE IF ~CanWriteChunk(data, value, chunk, g.transposeAxes, g.itransposeAxes)
    THEN data' = data /\ EndWith("raised", hp, g, log)
    ELSE LoopNext(hp,
                  SetItem(data, chunk.idx,
                          WriteValue(value, chunk, g.transposeAxes, g.itransposeAxes)),
                  g, Append(log, [op |-> "write", k |-> g.k]))

\* _prepareAccess and the rest of the code before the loop, with the View
\* v as _prepareAccess leaves it and the heap hp
PreLoop(hp, v) ==
    /\ view' = v
    /\ LoopNext(hp, data, GenLocals(v, data.shape, TransposeAxes(v, data.shape)), log)

\* next(generator): from the start of items() or from its yield to the next
\* yield or to the end of items()
Advance ==
    /\ gen.state \in {"created", "suspended"}
    /\ UNCHANGED <<args, pass, ret>>
    /\ IF gen.state = "suspended"
       THEN /\ view' = view
            /\ PostYield(heap, gen, At(gen.chunks, gen.k), Deref(heap, consumer.held))
       ELSE IF MustAllocate(view)
       THEN \E g \in Garbage :
               PreLoop(Append(heap, EmptyArray(view.bufferShape, g)),
                       [view EXCEPT !.buffer = Len(heap) + 1])
       ELSE PreLoop(heap, view)

\* the consumer changes every element of the buffer view it was yielded last
Mutate ==
    /\ gen.state = "suspended"
    /\ consumer.nmut < MaxMut
    /\ heap' = [heap EXCEPT ![consumer.held.buf] =
                  SetItem(@, RefIdx(consumer.held),
                          Array(Deref(heap, consumer.held).shape,
                                Tup([j \in DOMAIN Deref(heap, consumer.held).flat |->
                                       Mutated(Deref(heap, consumer.held).flat[j])])))]
    /\ consumer' = [consumer EXCEPT !.nmut = @ + 1]
    /\ UNCHANGED <<args, data, view, gen, log, pass, ret>>
\* a close that writes the held chunk back before the generator ends
CloseFlushing ==
    /\ gen.state \in {"created", "suspended"}
    /\ gen' = [gen EXCEPT !.state = "closed"]
    /\ IF gen.state = "suspended" /\ gen.post_copy
       THEN /\ data' = SetItem(data, At(gen.chunks, gen.k).idx,
                               WriteValue(Deref(heap, consumer.held),
                                          At(gen.chunks, gen.k),
                                          gen.transposeAxes, gen.itransposeAxes))
            /\ log' = Append(log, [op |-> "write", k |-> gen.k])
       ELSE UNCHANGED <<data, log>>
    /\ UNCHANGED <<args, view, heap, consumer, pass, ret>>

\* generator.close(), or the generator is dropped: nothing after the yield
\* runs; the View can be asked for a new generator
Close ==
    /\ gen.state \in {"created", "suspended"}
    /\ gen' = [gen EXCEPT !.state = "closed"]
    /\ UNCHANGED <<args, data, view, heap, consumer, log, pass, ret>>

Next == Construct \/ ItemsCall \/ Advance \/ Mutate \/ Close
Spec == Init /\ [][Next]_vars

\* Views of sources of both kinds
NextH5 == Construct \/ ConstructH5 \/ ItemsCall \/ Advance \/ Mutate \/ Close
SpecH5 == InitH5 /\ [][NextH5]_vars

NextPlan == Construct
SpecPlan == InitPlan /\ [][NextPlan]_vars

\* constructor calls with arguments of every kind, and what follows them
SpecCtor == InitCtor /\ [][Next]_vars

\* ------------------------------------------------- calls of the slice algebra
\* no View and no source array: only functions of the module are called
NoData == Array(<<0>>, <<>>)
Idle ==
    /\ data = NoData
    /\ view = NoView
    /\ heap = <<>>
    /\ gen = NoGen
    /\ consumer = [held |-> NoRef, kept |-> NoRef, nmut |-> 0]
    /\ log = <<>>
    /\ pass = 0
    /\ ret = NoRet

\* a slice bound or step: None or an int of lo..hi
OptInts(lo, hi) == {None} \cup {Some(v) : v \in lo..hi}
\* the slices with a non-zero step and the axis lengths they are applied to
SliceArgs ==
    \E n \in 0..SliceMaxLen :
      \E start \in OptInts(-(SliceMaxLen + 2), SliceMaxLen + 2) :
        \E stop \in OptInts(-(SliceMaxLen + 2), SliceMaxLen + 2) :
          \E step \in OptInts(-SliceMaxStep, SliceMaxStep) \ {Some(0)} :
            args = [slc |-> slice(start, stop, step), n |-> n]

InitSlice == SliceArgs /\ Idle

Returns(fn, value) ==
    /\ ret' = [fn |-> fn, value |-> value]
    /\ UNCHANGED <<args, data, view, heap, gen, consumer, log, pass>>

\* an argument that is a float, k + 0.5, next to None and Some(int)
Float(k) == <<k, "float">>
\* isinstance(v, numbers.Integral)
IsIntegral(v) == Len(v) = 1
\* slc.indices(n) and lst[slc] raise TypeError when start, stop or step is
\* neither None nor an integer
SliceRaises(slc) == ~\A v \in {slc.start, slc.stop, slc.step} : v = None \/ IsIntegral(v)
TypeError == [err |-> "TypeError"]

CallSliceLen ==
    Returns("sliceLen",
            IF SliceRaises(args.slc) THEN TypeError ELSE sliceLen(args.slc, args.n))
CallSliceNormalize ==
    Returns("sliceNormalize",
            IF SliceRaises(args.slc) THEN TypeError
            ELSE sliceNormalize(args.slc, args.n))
CallSliceReverse ==
    Returns("sliceReverse",
            IF SliceRaises(args.slc) THEN TypeError ELSE sliceReverse(args.slc, args.n))
CallSliceComplement ==
    Returns("sliceComplement",
            IF SliceRaises(args.slc) THEN TypeError
            ELSE sliceComplement(args.slc, args.n))

NextSlice == CallSliceLen \/ CallSliceNormalize \/ CallSliceReverse \/ CallSliceComplement
SpecSlice == InitSlice /\ [][NextSlice]_vars

\* ------------------------------------------------ calls with any arguments
TypedValues(lo, hi) == OptInts(lo, hi) \cup {Float(0)}
TypedArgs ==
    \E n \in 0..TypedMaxInt :
    \E start, stop \in TypedValues(-TypedMaxInt, TypedMaxInt) :
    \E step \in TypedValues(-TypedMaxInt, TypedMaxInt) \ {Some(0)} :
        args = [slc |-> slice(start, stop, step), n |-> n]
InitTyped == TypedArgs /\ Idle

\* chunkIndexGen(start, stop, step): the call makes a generator and runs
\* none of the body of the function
CallChunkIndexGen ==
    Returns("chunkIndexGen", [state |-> "created", k |-> 0, err |-> "", item |-> None])

\* next() on the generator of chunkIndexGen(slc.start, slc.stop, slc.step):
\* the first one runs the body from its top, type checks included
NextOfChunkIndexGen(g, slc, step) ==
    IF ~(IsIntegral(slc.start) /\ IsIntegral(slc.stop) /\ IsIntegral(step))
    THEN [g EXCEPT !.state = "raised", !.err = "TypeError"]
    ELSE IF g.k < Len(chunkIndexGen(slc.start[1], slc.stop[1], step[1]))
    THEN [g EXCEPT !.state = "suspended", !.k = g.k + 1,
                   !.item = Some(chunkIndexGen(slc.start[1], slc.stop[1], step[1])[g.k + 1])]
    ELSE [g EXCEPT !.state = "finished"]

NextPiece ==
    /\ ret.fn = "chunkIndexGen"
    /\ ret.value.state \in {"created", "suspended"}
    /\ Returns("chunkIndexGen",
               NextOfChunkIndexGen(ret.value, args.slc,
                                   IF args.slc.step = None THEN Some(1)
                                   ELSE args.slc.step))

NextTyped ==
    \/ CallSliceLen \/ CallSliceNormalize \/ CallSliceReverse \/ CallSliceComplement
    \/ CallChunkIndexGen
    \/ NextPiece
SpecTyped == InitTyped /\ [][NextTyped]_vars

\* ---------------------------------------------------------- memory budget
\* shape_slice after shape_slice.pop(ax) for every ax of axes in turn; pop
\* counts a negative index from the end and raises IndexError out of range
RECURSIVE PopAll(_, _)
PopAll(shape_slice, axes) ==
    IF axes = <<>> THEN [err |-> "", lst |-> shape_slice]
    ELSE LET ax == IF Head(axes) < 0 THEN Head(axes) + Len(shape_slice)
                   ELSE Head(axes)
         IN  IF ax < 0 \/ ax >= Len(shape_slice) THEN [err |-> "IndexError"]
             ELSE PopAll(SubSeq(shape_slice, 1, ax) \o SubSeq(shape_slice, ax + 2, Len(shape_slice)),
                         Tail(axes))

\* chunks_in_memory with the dtype given by its item size, the margin as the
\* fraction num/den (a power of two, exact as a float), axis as the sequence
\* of the axes popped (a single int is popped once, like a tuple of one) and
\* nbytes_mem what the memory query returned (None when it is unknown)
chunks_in_memory(shape, itemsize, axis, margin, maximal, nbytes_mem) ==
    LET popped == PopAll(shape, axis)
        nbytes_chunk == SeqProd(popped.lst) * itemsize
        n_chunks == (nbytes_mem[1] * margin.num) \div (margin.den * nbytes_chunk)
    IN  IF nbytes_mem = None THEN [err |-> "", value |-> maximal]
        ELSE IF popped.err # "" THEN popped
        ELSE IF popped.lst = <<>> THEN [err |-> "ValueError"]
        ELSE IF maximal # None /\ maximal[1] # 0
        THEN [err |-> "", value |-> Some(Max(n_chunks, maximal[1]))]
        ELSE [err |-> "", value |-> Some(n_chunks)]

MemArgs ==
    \E ndim \in 1..3 : \E shape \in [1..ndim -> 1..MemMaxDim] :
    \E itemsize \in 1..2, den \in {1, 2} :
    \E axis \in {<<-1>>, <<0>>, <<1>>, <<0, 1>>, <<1, 0>>, <<1, 2>>, <<-1, -2>>, <<-2, -1>>} :
    \E maximal \in {None, Some(0), Some(3)} :
    \E nbytes_mem \in {None} \cup {Some(m) : m \in {0, 1, MemMaxBytes \div 2, MemMaxBytes}} :
        args = [shape |-> Tup(shape), itemsize |-> itemsize, axis |-> axis,
                margin |-> [num |-> 1, den |-> den], maximal |-> maximal,
                nbytes_mem |-> nbytes_mem]

InitMem == MemArgs /\ Idle

CallChunksInMemory ==
    Returns("chunks_in_memory",
            chunks_in_memory(args.shape, args.itemsize, args.axis, args.margin,
                             args.maximal, args.nbytes_mem))

SpecMem == InitMem /\ [][CallChunksInMemory]_vars


\* ---------------------------------------------------------- izipChunkItems
\* the iterators are the items() generators of writable Views, of lens[i]
\* chunks each
ZipArgs ==
    \E m \in 0..ZipMaxIters : \E lens \in [1..m -> 0..ZipMaxLen] :
        args = [lens |-> Tup(lens)]

\* the generator of izipChunkItems before its first next(): no iterator was
\* advanced, nothing was yielded
InitZip ==
    /\ ZipArgs
    /\ data = NoData /\ view = NoView /\ heap = <<>>
    /\ consumer = [held |-> NoRef, kept |-> NoRef, nmut |-> 0]
    /\ log = <<>> /\ pass = 0 /\ ret = NoRet
    /\ gen = [state |-> "created", bloop |-> TRUE, yielded |-> 0,
              its |-> Tup([i \in DOMAIN args.lens |->
                             [nexts |-> 0, written |-> 0, done |-> FALSE]])]

\* next(it) on the items() generator it of a View of n chunks: the code
\* after the yield of the chunk handed out before writes that chunk back,
\* then the following chunk is read and yielded, or the loop ends
ItemsNext(it, n) ==
    [nexts |-> it.nexts + 1,
     written |-> IF it.nexts >= 1 /\ ~it.done THEN it.nexts ELSE it.written,
     done |-> it.nexts >= n]

\* tuple(_next(it) for it in iterables) with the builtin zip's way of
\* stopping at the first iterator that is exhausted
RoundUntilExhausted(its, lens) ==
    Tup([i \in DOMAIN its |->
           IF \E j \in 1..(i - 1) : its[j].nexts >= lens[j] THEN its[i]
           ELSE ItemsNext(its[i], lens[i])])

\* ret = tuple(_next(it) for it in iterables): next is called on every
\* iterator, _next turning StopIteration into bloop[0] = False
RoundOfNext(its, lens) == Tup([i \in DOMAIN its |-> ItemsNext(its[i], lens[i])])

\* next() on the generator of izipChunkItems: one turn of its while loop,
\* which yields the tuple or, with bloop[0] False, falls out of the loop
ZipNext ==
    /\ gen.state \in {"created", "suspended"}
    /\ gen.yielded < ZipMaxRounds
    /\ LET its == RoundOfNext(gen.its, args.lens)
           bloop == \A i \in DOMAIN its : ~its[i].done
       IN  gen' = [state |-> IF bloop THEN "suspended" ELSE "finished",
                   bloop |-> bloop,
                   yielded |-> IF bloop THEN gen.yielded + 1 ELSE gen.yielded,
                   its |-> its]
    /\ UNCHANGED <<args, data, view, heap, consumer, log, pass, ret>>

SpecZip == InitZip /\ [][ZipNext]_vars

\* ------------------------------------------------- OutputBuffer and its lock
\* the model keeps the OutputBuffer in view, the NXprocess of its HDF5 file in
\* data, the buffer contexts entered and not yet left in gen (the innermost
\* last), the outcome of the last call in ret and the number of assignments
\* that went through in pass
LockMaxDepth == 2
LockMaxAssign == 1

\* the settings whose setters call _check_bufferContext
LockedSettings ==
    {"outputRoot", "fileEntry", "fileProcess", "edf", "tif", "csv", "saveData",
     "saveFit", "saveResiduals", "overwrite"}
NamedSettings == {"outputRoot", "fileEntry", "fileProcess"}
DefaultName(name) ==
    CASE name = "outputRoot" -> "IMAGES"
      [] name = "fileEntry" -> "images"
      [] name = "fileProcess" -> "fast_xrf_fit"
\* the values a caller assigns: a name or the empty string, True or False
AssignedValues(name) == IF name \in NamedSettings THEN {"", "scan"} ELSE BOOLEAN

\* what a setter that got past the check stores for value
StoredValue(name, value) ==
    IF name \in NamedSettings /\ value = "" THEN DefaultName(name) ELSE value

\* OutputBuffer.__init__ with its defaults but for h5, outputDir, edf and
\* overwrite
OutputBufferInit(edf, overwrite) ==
    [init_buffer |-> FALSE, nxprocess |-> FALSE,
     settings |-> [name \in LockedSettings |->
                     IF name \in NamedSettings THEN DefaultName(name)
                     ELSE IF name = "edf" THEN edf
                     ELSE IF name = "overwrite" THEN overwrite
                     ELSE FALSE]]

RuntimeError(msg) == [err |-> "RuntimeError", msg |-> msg]
Returned(fn) == [fn |-> fn, err |-> "", msg |-> ""]
Raised(fn, e) == [fn |-> fn, err |-> e.err, msg |-> e.msg]

\* _check_bufferContext raises
CheckRaisesNever(ob) == FALSE
_check_bufferContext(ob) == ob.init_buffer

\* a setter: self.<name> = value
Setter(ob, name, value) ==
    IF _check_bufferContext(ob) THEN ob
    ELSE [ob EXCEPT !.settings[name] = StoredValue(name, value)]

\* a buffer context that was entered: owner when it took the lock, h5 when
\* it opened the NXprocess, which existed before or not; exiting when the
\* body of a saveContext has ended and its save() runs
Frame(kind, owner, h5, existed) ==
    [kind |-> kind, owner |-> owner, h5 |-> h5, existed |-> existed, exiting |-> FALSE]

\* _bufferContext opens the HDF5 file: if self.h5, if self._nxprocess is
\* None and self.outputDir
OpensH5(ob, a) == a.h5 /\ ~ob.nxprocess /\ a.outputDir

\* _h5Context raises RuntimeError('... already exists')
AlreadyExists(ob, file, update) ==
    file.process /\ ~update /\ ~ob.settings["overwrite"]

\* the exit of a buffer context releases the lock
ReleasesAlways(frame) == TRUE
Releases(frame) == frame.owner

\* the code of _bufferContext and _h5Context after the yield, raised telling
\* whether an exception came out of the body
ExitBuffer(ob, frame, raised) ==
    IF ~Releases(frame) THEN ob
    ELSE [ob EXCEPT !.init_buffer = FALSE,
                    !.nxprocess = IF frame.h5 THEN FALSE ELSE @]
ExitFile(file, frame, raised) ==
    IF frame.owner /\ frame.h5 /\ raised /\ ~frame.existed
    THEN [file EXCEPT !.process = FALSE] ELSE file

\* the lock example: an OutputBuffer on which nothing was called yet, the
\* NXprocess being in the file or not
LockArgs ==
    \E h5 \in BOOLEAN, outputDir \in BOOLEAN, edf \in BOOLEAN, overwrite \in BOOLEAN :
        args = [h5 |-> h5, outputDir |-> outputDir, edf |-> edf, overwrite |-> overwrite]
InitLock ==
    /\ LockArgs
    /\ view = OutputBufferInit(args.edf, args.overwrite)
    /\ data \in {[process |-> FALSE], [process |-> TRUE]}
    /\ gen = <<>>
    /\ ret = Returned("__init__")
    /\ pass = 0
    /\ heap = <<>> /\ log = <<>>
    /\ consumer = [held |-> NoRef, kept |-> NoRef, nmut |-> 0]

\* self.<name> = value
Assign ==
    /\ \E name \in LockedSettings : \E value \in AssignedValues(name) :
          /\ (~_check_bufferContext(view)) => pass < LockMaxAssign
          /\ view' = Setter(view, name, value)
          /\ ret' = IF _check_bufferContext(view)
                    THEN Raised("set", RuntimeError("Buffer is locked"))
                    ELSE Returned("set")
          /\ pass' = IF _check_bufferContext(view) THEN pass ELSE pass + 1
    /\ UNCHANGED <<args, data, gen, heap, consumer, log>>

\* the code of _bufferContext(update) up to its yield, for a context of the
\* kind kind; ioError: the file cannot be opened
EnterContext(kind, update, ioError) ==
    IF view.init_buffer
    THEN /\ gen' = Append(gen, Frame(kind, FALSE, FALSE, FALSE))
         /\ ret' = Returned("enter")
         /\ UNCHANGED <<view, data>>
    ELSE IF ~OpensH5(view, args)
    THEN /\ gen' = Append(gen, Frame(kind, TRUE, FALSE, FALSE))
         /\ view' = [view EXCEPT !.init_buffer = TRUE]
         /\ ret' = Returned("enter")
         /\ UNCHANGED data
    ELSE IF ioError \/ AlreadyExists(view, data, update)
    THEN /\ ret' = Raised("enter", RuntimeError(IF ioError THEN "io" ELSE "already exists"))
         /\ UNCHANGED <<view, data, gen>>
    ELSE /\ gen' = Append(gen, Frame(kind, TRUE, TRUE, data.process /\ update))
         /\ view' = [view EXCEPT !.init_buffer = TRUE, !.nxprocess = TRUE]
         /\ data' = [data EXCEPT !.process = TRUE]
         /\ ret' = Returned("enter")

\* with self._bufferContext(update): the body is entered
EnterBufferContext ==
    /\ Len(gen) < LockMaxDepth
    /\ \E update \in BOOLEAN, ioError \in BOOLEAN : EnterContext("buffer", update, ioError)
    /\ UNCHANGED <<args, heap, consumer, log, pass>>

\* with self.saveContext(): the body is entered
EnterSaveContext ==
    /\ Len(gen) < LockMaxDepth
    /\ \E ioError \in BOOLEAN : EnterContext("save", FALSE, ioError)
    /\ UNCHANGED <<args, heap, consumer, log, pass>>

\* save() returns at once: no output format or no output directory
SavesNothing(ob, a) ==
    \/ ~(ob.settings["tif"] \/ ob.settings["edf"] \/ ob.settings["csv"] \/ a.h5)
    \/ ~a.outputDir

\* the contexts left and the OutputBuffer and the file after the innermost
\* context was left, and with it the saveContext whose save() it was
Leave(stack, ob, file, raised, fn) ==
    LET top == stack[Len(stack)]
        ob1 == ExitBuffer(ob, top, raised)
        file1 == ExitFile(file, top, raised)
        rest == SubSeq(stack, 1, Len(stack) - 1)
        outer == rest[Len(rest)]
        both == top.kind = "saving" /\ rest # <<>> /\ outer.exiting
    IN  /\ gen' = IF both THEN SubSeq(rest, 1, Len(rest) - 1) ELSE rest
        /\ view' = IF both THEN ExitBuffer(ob1, outer, raised) ELSE ob1
        /\ data' = IF both THEN ExitFile(file1, outer, raised) ELSE file1
        /\ ret' = IF raised THEN Raised(fn, RuntimeError("body")) ELSE Returned(fn)

\* an exception comes out of the body of the innermost context, or out of
\* the save() that runs there
BodyRaises ==
    /\ gen # <<>>
    /\ Leave(gen, view, data, TRUE, "exit")
    /\ UNCHANGED <<args, heap, consumer, log, pass>>

\* the body of the innermost context ends: a _bufferContext is left; a
\* saveContext calls save(), which is left at once or enters its own
\* _bufferContext(update=True)
BodyEnds ==
    /\ gen # <<>>
    /\ gen[Len(gen)].kind \in {"buffer", "save"}
    /\ ~gen[Len(gen)].exiting
    /\ IF gen[Len(gen)].kind = "buffer" \/ SavesNothing(view, args)
       THEN Leave(gen, view, data, FALSE, "exit")
       ELSE /\ gen' = Append([gen EXCEPT ![Len(gen)].exiting = TRUE],
                             Frame("saving", FALSE, FALSE, FALSE))
            /\ ret' = Returned("save")
            /\ UNCHANGED <<view, data>>
    /\ UNCHANGED <<args, heap, consumer, log, pass>>

\* save() is called, outside or inside a context: up to the body of its
\* _bufferContext(update=True)
SaveCall ==
    /\ Len(gen) < LockMaxDepth
    /\ gen # <<>> => ~gen[Len(gen)].exiting /\ gen[Len(gen)].kind # "saving"
    /\ IF SavesNothing(view, args)
       THEN ret' = Returned("save") /\ UNCHANGED <<view, data, gen>>
       ELSE \E ioError \in BOOLEAN : EnterContext("saving", TRUE, ioError)
    /\ UNCHANGED <<args, heap, consumer, log, pass>>

\* _saveSingle and _saveH5 have run: the _bufferContext of save() is left
SaveEnds ==
    /\ gen # <<>>
    /\ gen[Len(gen)].kind = "saving"
    /\ Leave(gen, view, data, FALSE, "exit")
    /\ UNCHANGED <<args, heap, consumer, log, pass>>

NextLock ==
    \/ Assign \/ EnterBufferContext \/ EnterSaveContext
    \/ BodyRaises \/ BodyEnds \/ SaveCall \/ SaveEnds
SpecLock == InitLock /\ [][NextLock]_vars

\* =================================================================== claims
\* the chunk descriptors the View enumerates
ViewChunks == ChunkGenerator(view)
\* the row capacity asked for, coerced to at least 1
Capacity == Max(args.nMca[1], 1)
\* the order axes of the stack, ascending
OrderAxesSorted == SortedSet({a \in 0..(Len(args.shape) - 1) : a \notin SeqRange(view.chunkAxes)})
SizesOf(oaxes) == Tup([i \in DOMAIN oaxes |-> At(args.shape, oaxes[i])])
OrderSizes == SizesOf(OrderAxesSorted)
\* every coordinate tuple of axes of the sizes sizes
SpaceOf(sizes) ==
    SeqRange(ItProduct(Tup([i \in DOMAIN sizes |-> PyRange(0, sizes[i], 1)])))
OrderSpace == SpaceOf(OrderSizes)

\* the order-axes coordinates a chunk's index addresses, in the order of the
\* rows of the chunk: for slices their product taken in C order, for int
\* lists the lists taken side by side
RowsOfLists(lists, dense) ==
    IF dense THEN ItProduct(lists)
    ELSE Tup([r \in 1..Len(lists[1]) |-> Tup([i \in DOMAIN lists |-> lists[i][r]])])
RowsOf(chunk, oaxes, shape) ==
    RowsOfLists(Tup([i \in DOMAIN oaxes |->
                       AxisIndices(At(chunk.idx, oaxes[i]), At(shape, oaxes[i]))]),
                At(chunk.idx, oaxes[1]).kind = "slice")
RowsOfAll(chunks, oaxes, shape) ==
    Tup([k \in DOMAIN chunks |-> RowsOf(chunks[k], oaxes, shape)])
AllRows(chunks, oaxes, shape) == Flatten(RowsOfAll(chunks, oaxes, shape))
Counts(chunks) == Tup([k \in DOMAIN chunks |-> chunks[k].n])
RECURSIVE SeqSum(_)
SeqSum(s) == IF s = <<>> THEN 0 ELSE Head(s) + SeqSum(Tail(s))

\* ---- C1
CoversOnce(chunks, rowsOf, space, sizes) ==
    /\ Len(Flatten(rowsOf)) = Cardinality(space)
    /\ SeqRange(Flatten(rowsOf)) = space
    /\ \A k \in DOMAIN chunks : chunks[k].n = Len(rowsOf[k])
    /\ SeqSum(Counts(chunks)) = SeqProd(sizes)

\* C1: the chunks of the dense planner and enumerator address every
\* coordinate of the order-axes space exactly once (the rows of all chunks,
\* put one after the other, are the space without repetition), every count
\* is the number of coordinates of its chunk, and the counts sum to the
\* product of the order-axis sizes.
C1_DensePartition ==
    (view.built /\ ~view.masked) =>
        CoversOnce(ViewChunks, RowsOfAll(ViewChunks, OrderAxesSorted, args.shape),
                   OrderSpace, OrderSizes)

SplitThreeWays(chunks) ==
    /\ Len(chunks) >= 6
    /\ \E k, l \in DOMAIN chunks : chunks[k].n > chunks[l].n /\ chunks[l].n > 1

\* a dense plan over three order axes that has a whole axis, a split axis
\* with pieces of different lengths and an axis of unit pieces
C1_Witness ==
    /\ view.built /\ ~view.masked
    /\ Len(args.shape) = 4
    /\ SplitThreeWays(ViewChunks)

\* ---- C2
WithinCapacity(chunks, cap, nBuffer) ==
    \A k \in DOMAIN chunks :
        /\ chunks[k].n <= cap
        /\ chunks[k].n <= nBuffer
        /\ Len(Expand(slice(None, Some(chunks[k].n), None), nBuffer)) = chunks[k].n

\* C2: no chunk of the dense or of the masked planner has a count above the
\* coerced row capacity or above the number of rows of the View's buffer,
\* and buffer[:count] has exactly count rows.
C2_CountWithinCapacity ==
    view.built => WithinCapacity(ViewChunks, Capacity, view.bufferShape[1])

FillsBuffer(chunks, oaxes, nBuffer) ==
    /\ Len(chunks) >= 2
    /\ \E k \in DOMAIN chunks :
          /\ chunks[k].n = nBuffer
          /\ \E a, b \in DOMAIN oaxes :
                /\ a # b
                /\ At(chunks[k].shape, oaxes[a]) > 1
                /\ At(chunks[k].shape, oaxes[b]) > 1

\* a dense plan whose buffer is smaller than the capacity and has a chunk
\* that fills it, after an axis was consumed whole
C2_Witness ==
    /\ view.built /\ ~view.masked
    /\ view.bufferShape[1] < Capacity
    /\ FillsBuffer(ViewChunks, OrderAxesSorted, view.bufferShape[1])

\* ---- C3
\* the coordinates the mask selects, in the mask's own (C) order
MaskCoords(mask) ==
    NonzeroCoords(mask.shape,
                  SelectSeq(Tup([i \in 1..Len(mask.flat) |-> i - 1]),
                            LAMBDA k : At(mask.flat, k)))
\* the coordinates chunk carries, as tuples over the mask's dimensions
MaskRows(chunk, axesOrder) ==
    Tup([r \in 1..Len(At(chunk.idx, axesOrder[1]).lst) |->
           Tup([d \in DOMAIN axesOrder |-> At(chunk.idx, axesOrder[d]).lst[r]])])
BatchesOf(chunks, coords, c) ==
    /\ Len(chunks) = (Len(coords) + c - 1) \div c
    /\ \A i \in DOMAIN chunks :
          /\ MaskRows(chunks[i], view.axesOrder)
                = SubSeq(coords, (i - 1) * c + 1, Min(i * c, Len(coords)))
          /\ chunks[i].n = Min(i * c, Len(coords)) - (i - 1) * c
          /\ (i < Len(chunks) => chunks[i].n = c)
    /\ SeqSum(Counts(chunks)) = Len(coords)

\* C3: the masked planner gives ceil(m/c) chunks, chunk i carrying the
\* coordinates number i*c .. min((i+1)*c, m)-1 of the mask in the mask's
\* order, every chunk but the last of count c, the counts summing to m.
C3_MaskedBatches ==
    (view.built /\ view.masked) =>
        BatchesOf(ViewChunks, MaskCoords(args.mask[1]), Capacity)

\* 7 selected rows with capacity 3 give the counts 3, 3, 1
C3_Witness ==
    /\ view.built /\ view.masked
    /\ Len(MaskCoords(args.mask[1])) = 7
    /\ args.nMca = Some(3)
    /\ Counts(ViewChunks) = <<3, 3, 1>>

\* ---- the elements a chunk addresses
ChanAxis == view.chunkAxes[1]
\* the channel indices the View's channel slice selects, in buffer order
ChanIndices == Expand(view.mcaSlice, At(args.shape, ChanAxis))
ChannelCount == Len(ChanIndices)
\* position in data.flat of the element at the order coordinates row and
\* the channel ch
CellAt(row, ch, oaxes, chanAxis, shape) ==
    Ravel(shape,
          Tup([a \in 1..Len(shape) |->
                 IF a - 1 = chanAxis THEN ch ELSE row[IndexOf(oaxes, a - 1) + 1]])) + 1
\* the positions of the elements of the rows rows and the channels chans:
\* row after row, and in a row channel after channel
CellsAt(rows, chans, oaxes, chanAxis, shape) ==
    Tup([i \in 1..(Len(rows) * Len(chans)) |->
           CellAt(rows[((i - 1) \div Len(chans)) + 1], chans[((i - 1) % Len(chans)) + 1],
                  oaxes, chanAxis, shape)])
ChunkRows(k) == RowsOf(At(ViewChunks, k), OrderAxesSorted, args.shape)
ChunkCells(k) == CellsAt(ChunkRows(k), ChanIndices, OrderAxesSorted, ChanAxis, args.shape)
\* dat after flat[i] was stored at the position cells[i], for every i
StoredAt(dat, flat, cells, where) ==
    Array(dat.shape,
          Tup([j \in DOMAIN dat.flat |->
                 IF j \in where THEN flat[IndexOf(cells, j) + 1] ELSE dat.flat[j]]))
Stored(dat, value, cells) == StoredAt(dat, value.flat, cells, SeqRange(cells))
Event(op, k) == [op |-> op, k |-> k]
Writes(lg) == SelectSeq(lg, LAMBDA e : e.op = "write")
Reads(lg) == SelectSeq(lg, LAMBDA e : e.op = "read")

\* ---- C4
\* read 0, write 0, read 1, write 1, ...: the first n events
Interleaved(n) ==
    Tup([i \in 1..n |-> IF i % 2 = 1 THEN Event("read", i \div 2)
                        ELSE Event("write", (i \div 2) - 1)])

\* C4: on a writable View the write-back of chunk k comes after the yield of
\* chunk k and before the read of chunk k+1: while chunk k is held the reads
\* and write-backs so far are read 0, write 0, ..., write k-1, read k, and
\* when the generator is exhausted every chunk was read and written back
\* exactly once, in chunk order.
C4_WriteBackOrder ==
    (view.built /\ ~view.readonly) =>
        /\ gen.state = "suspended" => log = Interleaved(2 * gen.k + 1)
        /\ gen.state = "finished" =>
              /\ gen.k = Len(ViewChunks)
              /\ log = Interleaved(2 * gen.k)

\* a writable traversal of at least three chunks is exhausted after the
\* consumer changed a chunk
C4_Witness ==
    /\ ~view.readonly
    /\ gen.state = "finished"
    /\ Len(ViewChunks) >= 3
    /\ consumer.nmut = 1
    /\ data # Orig(args.shape)

\* ---- C5
\* C5: the write-back of a chunk (the advance past a held chunk of a
\* writable View) stores value[r, c] at the element of chunk row r and
\* selected channel c and leaves every other element of the source as it was.
C5_MutationFrame ==
    [][(gen.state = "suspended" /\ gen' # gen /\ gen'.state # "closed"
          /\ ~view.readonly)
         => data' = Stored(data, Deref(heap, consumer.held), ChunkCells(gen.k))]_vars

PartlyChanged(flat, cells) ==
    /\ \E i \in DOMAIN cells : flat[cells[i]] = Mutated(cells[i])
    /\ \E j \in DOMAIN flat : flat[j] = j

\* a chunk the consumer changed was written back to a View with a channel
\* slice and a mask: some elements of the source changed, those outside the
\* slice and those of the other chunks did not
C5_Witness ==
    /\ ~view.readonly /\ view.masked
    /\ args.mcaSlice # None
    /\ gen.state = "suspended" /\ gen.k >= 1
    /\ PartlyChanged(data.flat, ChunkCells(gen.k - 1))

\* ---- C6
\* C6: on a writable View whose consumer changes nothing the traversal runs
\* to exhaustion without an error and leaves every element of the source
\* equal to its original value.
C6_RoundTrip ==
    (view.built /\ ~view.readonly /\ consumer.nmut = 0) =>
        /\ gen.state # "raised"
        /\ gen.state = "finished" => data = Orig(args.shape)

\* an unmodified writable traversal of a masked stack with three dimensions
\* whose channel axis is not the last is exhausted, the last chunk having
\* fewer rows than the buffer
C6_Witness ==
    /\ ~view.readonly /\ view.masked
    /\ Len(args.shape) = 3
    /\ ChanAxis # 2
    /\ consumer.nmut = 0
    /\ gen.state = "finished"
    /\ Len(ViewChunks) >= 2
    /\ At(ViewChunks, Len(ViewChunks) - 1).n < view.bufferShape[1]

\* ---- C7
\* C7: a read-only View never stores to the source: whatever the consumer
\* does to the yielded buffers the source keeps its original values, and
\* no write-back happens.
C7_ReadOnlyNeverWrites ==
    (view.built /\ view.readonly) =>
        /\ data = Orig(args.shape)
        /\ Writes(log) = <<>>

\* a read-only traversal is exhausted after the consumer changed a chunk
C7_Witness ==
    /\ view.built /\ view.readonly
    /\ consumer.nmut = 1
    /\ gen.state = "finished"
    /\ Len(ViewChunks) >= 2

\* ---- C8
\* the elements at cells hold what f makes of their original values
Holds(flat, cells, f(_)) == \A i \in DOMAIN cells : flat[cells[i]] = f(cells[i])
Same(v) == v
AllCells(chunks, chans, oaxes, chanAxis, shape) ==
    Tup([k \in DOMAIN chunks |->
           CellsAt(RowsOf(chunks[k], oaxes, shape), chans, oaxes, chanAxis, shape)])
\* the buffer view the consumer holds is as it was read from the original
HeldAsRead == Deref(heap, consumer.held).flat = ChunkCells(gen.k)

AbandonedAt(k, flat, cells, changedEarlier) ==
    /\ Writes(log) = Tup([i \in 1..k |-> Event("write", i - 1)])
    /\ \A j \in (k + 1)..Len(cells) : Holds(flat, cells[j], Same)
    /\ \A j \in 1..k : Holds(flat, cells[j], Same) \/ Holds(flat, cells[j], Mutated)
    /\ changedEarlier => \E j \in 1..k : Holds(flat, cells[j], Mutated)

\* C8: when the first traversal of a writable View is abandoned while chunk
\* k is held, exactly the chunks 0..k-1 have been written back, what was
\* written stays (a chunk the consumer changed holds the changed values),
\* and the elements of chunk k and of the chunks not yet visited hold their
\* original values.
C8_PartialCompletion ==
    (gen.state = "closed" /\ ~view.readonly /\ pass = 1) =>
        AbandonedAt(gen.k, data.flat,
                    AllCells(ViewChunks, ChanIndices, OrderAxesSorted, ChanAxis,
                             args.shape),
                    gen.k >= 1 /\ consumer.nmut = 1 /\ HeldAsRead)

\* the traversal is abandoned at its third chunk of four or more, after the
\* consumer changed an earlier chunk
C8_Witness ==
    /\ gen.state = "closed" /\ ~view.readonly /\ pass = 1
    /\ gen.k = 2
    /\ Len(ViewChunks) >= 4
    /\ consumer.nmut = 1
    /\ HeldAsRead

\* ---- C9
TotalRows == IF view.masked THEN Len(MaskCoords(args.mask[1])) ELSE SeqProd(OrderSizes)

\* C9 as stated: a View is traversed once, a second items() call yields
\* nothing and reads nothing.
C9_SingleTraversal ==
    pass >= 2 => (log = <<>> /\ gen.state # "suspended")

\* C9 (amended): every items() call on a View traverses the whole partition
\* again: when its generator is exhausted it has read the chunks 0..n-1 in
\* order, their counts summing to the number of rows of the View, and every
\* yielded value is a part of the one buffer of the View.
C9_EveryCallTraverses ==
    (view.built /\ pass >= 1) =>
        /\ gen.state = "finished" =>
              /\ Reads(log) = Tup([i \in 1..Len(gen.chunks) |-> Event("read", i - 1)])
              /\ SeqSum(Counts(gen.chunks)) = TotalRows
              /\ gen.chunks = ViewChunks
        /\ gen.state = "suspended" => consumer.held.buf = 1

\* the second traversal of a View of three or more chunks is exhausted
C9_Witness ==
    /\ pass = 2
    /\ gen.state = "finished"
    /\ Len(Reads(log)) >= 3

\* ---- C10
MaxCount(chunks) == Max(0, CHOOSE m \in {0} \cup SeqRange(Counts(chunks)) :
                              \A n \in SeqRange(Counts(chunks)) : n <= m)
PlannedRows(chunks, cap) == IF view.masked THEN cap ELSE MaxCount(chunks)
SameStart(a, b, n) == \A i \in 1..n : a[i] = b[i]

\* C10 as stated: the buffer has the shape (row capacity, channel count).
C10_BufferOfCapacityRows ==
    view.buffer # 0 => heap[view.buffer].shape = <<Capacity, ChannelCount>>

\* C10 (amended): the View has no buffer before the first advance of its
\* first generator and one buffer ever after; its shape is (nBuffer, channel
\* count), nBuffer being the row count of the planner: the coerced capacity
\* for a masked View and the largest chunk count, at most the capacity, for
\* a dense one; every yielded value is the first count rows of that buffer,
\* so the value yielded before shows what the value yielded last holds.
C10_BufferOfPlannedRows ==
    view.built =>
        /\ Len(heap) <= 1 /\ view.buffer = Len(heap)
        /\ (pass = 0 \/ (pass = 1 /\ gen.state = "created")) => heap = <<>>
        /\ gen.state \in {"suspended", "finished"} => Len(heap) = 1
        /\ heap # <<>> =>
              /\ heap[1].shape = <<view.bufferShape[1], ChannelCount>>
              /\ view.bufferShape[1] <= Capacity
              /\ view.bufferShape[1] = PlannedRows(ViewChunks, Capacity)
        /\ gen.state = "suspended" =>
              /\ consumer.held.buf = 1
              /\ consumer.held.rows = At(gen.chunks, gen.k).n
              /\ Deref(heap, consumer.held).shape
                    = <<At(gen.chunks, gen.k).n, ChannelCount>>
        /\ (gen.state = "suspended" /\ consumer.kept # NoRef) =>
              /\ consumer.kept.buf = consumer.held.buf
              /\ SameStart(Deref(heap, consumer.kept).flat,
                           Deref(heap, consumer.held).flat,
                           Min(consumer.kept.rows, consumer.held.rows) * ChannelCount)

\* in the second traversal of a dense View whose buffer has fewer rows than
\* the capacity the consumer holds a chunk it changed and the chunk before
C10_Witness ==
    /\ pass = 2
    /\ gen.state = "suspended" /\ gen.k >= 1
    /\ ~view.masked
    /\ view.bufferShape[1] < Capacity
    /\ consumer.kept # NoRef
    /\ consumer.nmut = 1
    /\ ~HeldAsRead

\* ---- C11
\* the number of elements of range(start, stop, step), counted one by one
RangeCount(t, n) ==
    Cardinality({k \in 0..n : IF t[3] > 0 THEN t[1] + k * t[3] < t[2]
                                ELSE t[1] + k * t[3] > t[2]})

\* C11: sliceLen(slc, n) is the number of elements of range(*slc.indices(n))
\* for every slice with a non-zero step and every n >= 0, and never negative.
C11_SliceLenIsRangeLen ==
    ret.fn = "sliceLen" =>
        /\ ret.value = Len(Expand(args.slc, args.n))
        /\ ret.value = RangeCount(SliceIndices(args.slc, args.n), args.n)
        /\ ret.value >= 0

\* the length of a slice with a step below -1 and an end out of range that
\* selects two or more elements
C11_Witness ==
    /\ ret.fn = "sliceLen"
    /\ args.slc.step # None /\ args.slc.step[1] < -1
    /\ args.slc.stop # None /\ args.slc.stop[1] < -args.n
    /\ ret.value >= 2

\* ---- C12
\* C12 as stated: the slice sliceReverse returns selects the elements of
\* range(n)[slc] in reverse order, for every slice and every n.
C12_ReverseSelectsReversed ==
    ret.fn = "sliceReverse" =>
        Expand(ret.value, args.n) = Reverse(Expand(args.slc, args.n))

\* ---- C13
IsAscending(s) == \A i \in 1..(Len(s) - 1) : s[i] < s[i + 1]

\* C13: sliceComplement(slc, n) is ascending without duplicates and holds
\* exactly the indices of range(n) that slc does not select.
C13_ComplementPartitions ==
    ret.fn = "sliceComplement" =>
        /\ IsAscending(ret.value)
        /\ SeqRange(ret.value) = (0..(args.n - 1)) \ SeqRange(Expand(args.slc, args.n))
        /\ Len(ret.value) + Len(Expand(args.slc, args.n)) = args.n

\* the complement of a slice with a step of 2 or more that selects two or more
\* elements holds an index between two selected ones
C13_Witness ==
    /\ ret.fn = "sliceComplement"
    /\ args.slc.step # None /\ args.slc.step[1] >= 2
    /\ Len(Expand(args.slc, args.n)) >= 2
    /\ \E i \in SeqRange(ret.value) :
          \E a, b \in SeqRange(Expand(args.slc, args.n)) : a < i /\ i < b

\* ---- C14
\* C14 as stated: the slice sliceNormalize returns selects the same elements
\* in the same order; its stop is None exactly when slc.stop is None and the
\* step is negative, and otherwise its start and stop are in 0..n.
C14_NormalizeKeepsSelection ==
    ret.fn = "sliceNormalize" =>
        /\ ret.value.start # None /\ ret.value.step # None
        /\ Expand(ret.value, args.n) = Expand(args.slc, args.n)
        /\ (ret.value.stop = None) <=>
              (args.slc.stop = None /\ SliceIndices(args.slc, args.n)[3] < 0)
        /\ ret.value.stop # None =>
              /\ ret.value.start[1] \in 0..args.n
              /\ ret.value.stop[1] \in 0..args.n

\* ---- C15
\* the pieces of the axis the dense planner takes first (nothing is consumed
\* before it), and the size of that axis
BoundaryPieces == view.chunkIndex[Len(view.chunkIndex)]
BoundarySize == At(args.shape, view.axesOrder[1])
CeilDiv(a, b) == (a + b - 1) \div b
\* n pieces that follow one another from index 0, every piece of length step
\* but the last, which holds what remains of N
PiecesOf(pieces, n, step, N) ==
    /\ Len(pieces) = n
    /\ \A i \in DOMAIN pieces :
          /\ pieces[i].n = (IF i < n THEN step ELSE N - (n - 1) * step)
          /\ Expand(pieces[i].idx, N) = PyRange((i - 1) * step, Min(i * step, N), 1)

\* C15 as stated: an axis of size N > C with nothing consumed before it is
\* split into ceil(N / C) consecutive pieces of length C, the last one
\* holding the remainder.
C15_BoundaryPiecesOfCapacity ==
    (view.built /\ ~view.masked /\ BoundarySize > Capacity) =>
        PiecesOf(BoundaryPieces, CeilDiv(BoundarySize, Capacity), Capacity,
                 BoundarySize)

\* C15 (amended): such an axis is split into n = ceil(N / C) consecutive
\* pieces in ascending order, and the length of the pieces is equalised: all
\* but the last have length ceil(N / n), which is at most C, and the last
\* has the remainder.
C15_BoundaryPiecesEqualised ==
    (view.built /\ ~view.masked /\ BoundarySize > Capacity) =>
        /\ PiecesOf(BoundaryPieces, CeilDiv(BoundarySize, Capacity),
                    CeilDiv(BoundarySize, CeilDiv(BoundarySize, Capacity)),
                    BoundarySize)
        /\ CeilDiv(BoundarySize, CeilDiv(BoundarySize, Capacity)) <= Capacity

\* shape (100, 10) with channel axis 1 and capacity 30: the row counts are
\* 25, 25, 25, 25
C15_Witness ==
    /\ view.built /\ ~view.masked
    /\ args.shape = <<100, 10>> /\ args.nMca = Some(30)
    /\ Counts(ViewChunks) = <<25, 25, 25, 25>>
    /\ AllRows(ViewChunks, <<0>>, args.shape) = Tup([i \in 1..100 |-> <<i - 1>>])

\* ---- C16
\* the constructor call has returned or raised
Constructed == view.built \/ view.err # ""

\* C16 as stated: constructing a View with nMca left out succeeds, with a
\* row capacity taken from the memory budget.  The constructor hands None to
\* the planner, which computes max(None, 1): a TypeError for Python 3, and 1
\* for Python 2 whatever the memory is.
C16_DefaultCapacityConstructs ==
    (args.nMca = None /\ Constructed) =>
        /\ view.built
        /\ view.err = ""

\* ---- C17
\* the channel axis the call names, and the sizes of the other axes, ascending
ArgChanAxis == IF args.mcaAxis = None THEN Len(args.shape) - 1 ELSE args.mcaAxis[1]
ArgOrderSizes == SizesOf(OrderAxes(Len(args.shape), ArgChanAxis))
\* the mask of the call is a tuple of index lists
ListsMask == args.mask # None /\ IsIndexLists(args.mask[1])
EqualLengths(lists) == \A i, j \in DOMAIN lists : Len(lists[i]) = Len(lists[j])
\* the boolean mask over mshape whose nonzero coordinates are the index lists
BoolMaskOf(mshape, lists) ==
    Array(mshape,
          Tup([k \in 1..Size(mshape) |->
                 \E r \in DOMAIN lists[1] :
                    \A d \in DOMAIN lists : lists[d][r] = Unravel(mshape, k - 1)[d]]))

\* C17 as stated: a mask given as a tuple of index lists of equal length is
\* accepted, and the View has the chunk descriptors of the boolean mask whose
\* nonzero coordinates are those lists.  The planner reads mask.ndim before
\* it looks at the type of the mask, which a tuple does not have.
C17_IndexListsAccepted ==
    (ListsMask /\ Constructed /\ EqualLengths(args.mask[1].lists)) =>
        /\ view.built
        /\ view.chunkIndex =
              maskedChunkIndex(args.shape, args.nMca,
                               BoolMaskOf(ArgOrderSizes, args.mask[1].lists),
                               <<ArgChanAxis>>, args.axesOrder, <<sliceAll>>,
                               "python3").chunkIndex

\* ---- C18
\* C18 as stated: a mask whose index lists have different lengths is
\* rejected at construction with an error about inconsistent data
\* (ValueError), no chunk descriptor is made and the source is untouched.
\* No length is compared: the call fails on mask.ndim like every tuple mask.
C18_UnequalListsRejected ==
    (ListsMask /\ Constructed /\ ~EqualLengths(args.mask[1].lists)) =>
        /\ ~view.built
        /\ view.err = "ValueError"
        /\ view.chunkIndex = <<>>
        /\ data = Orig(args.shape)
        /\ log = <<>>

\* ---- C19
\* the order the call gives, its negative indices resolved, is not the
\* non-channel axes each once
BadOrder ==
    /\ args.axesOrder # None
    /\ Sorted(PositiveAxes(args.axesOrder[1], Len(args.shape)))
           # OrderAxes(Len(args.shape), ArgChanAxis)
\* the mask is an array of another number of dimensions than there are
\* order axes
BadMaskDims ==
    /\ args.mask # None
    /\ ~IsIndexLists(args.mask[1])
    /\ Len(args.mask[1].shape) # Len(args.shape) - 1
Untouched == data = Orig(args.shape) /\ log = <<>> /\ heap = <<>> /\ gen = NoGen

ExcludedAxes ==
    {IF args.axis[i] < 0 THEN args.axis[i] + Len(args.shape) ELSE args.axis[i] :
        i \in DOMAIN args.axis}
\* the item size times the sizes of all dimensions but the excluded ones
BytesPerRow ==
    args.itemsize
        * SeqProd(Tup([i \in DOMAIN args.shape |->
                         IF i - 1 \in ExcludedAxes THEN 1 ELSE args.shape[i]]))
\* the call excludes distinct axes of the shape, and not all of them
ExcludesSomeAxes ==
    /\ ExcludedAxes \subseteq 0..(Len(args.shape) - 1)
    /\ Cardinality(ExcludedAxes) = Len(args.axis)
    /\ Len(args.axis) < Len(args.shape)
MemoryShare ==
    (args.nbytes_mem[1] * args.margin.num) \div (args.margin.den * BytesPerRow)

\* C20 as stated: with the memory unknown chunks_in_memory returns the
\* minimum it was given, otherwise floor(available * margin / bytes per row)
\* raised to that minimum when there is one, the bytes per row being those
\* of all dimensions but the excluded axes, one or several.  The axes are
\* popped one after the other from a list that shrinks, so that each pop
\* after the first names another dimension or none at all.
C20_MemoryBudget ==
    (ret.fn = "chunks_in_memory" /\ ExcludesSomeAxes) =>
        /\ ret.value.err = ""
        /\ ret.value.value =
              IF args.nbytes_mem = None THEN args.maximal
              ELSE IF args.maximal = None THEN Some(MemoryShare)
              ELSE Some(Max(MemoryShare, args.maximal[1]))

\* the same for a single excluded axis, which the code gets right
C20_SingleAxisBudget ==
    (Len(args.axis) = 1) => C20_MemoryBudget

\* ---- C21
\* the call was given a start, stop or step that is a float
FloatGiven == \E v \in {args.slc.start, args.slc.stop, args.slc.step} : Len(v) = 2

\* C21 as stated: every operation of the slice algebra that is given a
\* non-integral start, stop or step has raised TypeError when the call
\* returns, nothing being handed to the caller.  chunkIndexGen is a
\* generator function: its call hands out a generator, and the type checks
\* at the top of its body run with the first next().
C21_TypeErrorAtCall ==
    (FloatGiven /\ ret.fn # "") => ret.value.err = "TypeError"

\* what does hold: no piece is ever yielded for such arguments, and the
\* four slice functions raise at the call
C21_NeverTruncates ==
    (FloatGiven /\ ret.fn # "") =>
        IF ret.fn = "chunkIndexGen"
        THEN ret.value.item = None /\ ret.value.state \in {"created", "raised"}
        ELSE ret.value = TypeError

\* ---- C22
\* the index idx addresses the element at the coordinate c: its slices and
\* ints axis by axis, its int lists taken side by side
Hits(idx, c, shape, lists) ==
    /\ \A a \in DOMAIN idx :
          /\ idx[a].kind = "slice" => c[a] \in SeqRange(Expand(idx[a].slc, shape[a]))
          /\ idx[a].kind = "int" => c[a] = idx[a].i
    /\ lists # {} =>
          \E r \in DOMAIN idx[CHOOSE a \in lists : TRUE].lst :
             \A a \in lists : c[a] = idx[a].lst[r]
Addressed(idx, shape) ==
    {c \in SpaceOf(shape) :
        Hits(idx, c, shape, {a \in DOMAIN idx : idx[a].kind = "list"})}
\* the elements the traversal visits: the channels of the channel slice of
\* every row, or of the rows the mask selects
Visited(shape, chanAxis, chans, axesOrder, mask) ==
    {c \in SpaceOf(shape) :
        /\ c[chanAxis + 1] \in SeqRange(chans)
        /\ mask # None =>
              At(mask[1].flat,
                 Ravel(mask[1].shape, Tup([d \in DOMAIN axesOrder |-> At(c, axesOrder[d])])))}
PartitionOf(full, rest, all) ==
    /\ \A k \in DOMAIN rest : rest[k] \cap full = {}
    /\ \A j, k \in DOMAIN rest : j # k => rest[j] \cap rest[k] = {}
    /\ full \cup UNION SeqRange(rest) = all
IndexSets(idxs, shape) == Tup([k \in DOMAIN idxs |-> Addressed(idxs[k], shape)])

\* C22 as stated: idxFull addresses exactly the elements the traversal
\* visits, and idxFull with the indices of idxFullComplement address every
\* element of the source exactly once.  For a masked View the complement
\* only names the rows outside the mask at the channels outside the slice:
\* the masked rows at the other channels and the other rows at the channels
\* of the slice are in neither.
C22_FullAndComplement ==
    view.built =>
        /\ Addressed(idxFull(view, Len(args.shape), args.mask), args.shape)
              = Visited(args.shape, ChanAxis, ChanIndices, view.axesOrder, args.mask)
        /\ PartitionOf(Addressed(idxFull(view, Len(args.shape), args.mask), args.shape),
                       IndexSets(idxFullComplement(view, args.shape, args.mask),
                                 args.shape),
                       SpaceOf(args.shape))

\* what holds: the claim for the Views without a mask, and for the masked
\* ones all of it but that every element is addressed
C22_UnmaskedPartition ==
    (view.built /\ view.masked) \/ C22_FullAndComplement
C22_MaskedDisjoint ==
    (view.built /\ view.masked) =>
        /\ Addressed(idxFull(view, Len(args.shape), args.mask), args.shape)
              = Visited(args.shape, ChanAxis, ChanIndices, view.axesOrder, args.mask)
        /\ PartitionOf(Addressed(idxFull(view, Len(args.shape), args.mask), args.shape),
                       IndexSets(idxFullComplement(view, args.shape, args.mask),
                                 args.shape),
                       Addressed(idxFull(view, Len(args.shape), args.mask), args.shape)
                          \cup {c \in SpaceOf(args.shape) :
                                   c \notin Visited(args.shape, ChanAxis,
                                                    PyRange(0, At(args.shape, ChanAxis), 1),
                                                    view.axesOrder, args.mask)
                                   /\ c[ChanAxis + 1] \notin SeqRange(ChanIndices)})

\* ---- C23
ShortestLen(lens) == CHOOSE n \in SeqRange(lens) : \A i \in DOMAIN lens : n <= lens[i]

\* C23: izipChunkItems yields one tuple per round as long as every iterator
\* produces an item, so that after r tuples every iterator was advanced r
\* times; in the round in which an iterator is exhausted next is called on
\* every iterator, nothing is yielded and the generator ends: every
\* iterator, those after the exhausted one too, was then advanced once more
\* than the shortest has items.  So writable Views of the same number of
\* chunks have all written back their last chunk.
C23_ZipAdvancesAll ==
    args.lens # <<>> =>
        /\ gen.state = "suspended" =>
              /\ gen.yielded <= ShortestLen(args.lens)
              /\ \A i \in DOMAIN gen.its : gen.its[i].nexts = gen.yielded
        /\ gen.state = "finished" =>
              /\ gen.yielded = ShortestLen(args.lens)
              /\ \A i \in DOMAIN gen.its :
                    /\ gen.its[i].nexts = ShortestLen(args.lens) + 1
                    /\ args.lens[i] = ShortestLen(args.lens) =>
                          gen.its[i].written = args.lens[i]

\* three Views of the same number of chunks, zipped to the end
C23_Witness ==
    /\ Len(args.lens) = 3
    /\ \A i \in DOMAIN args.lens : args.lens[i] = 2
    /\ gen.state = "finished"
    /\ \A i \in DOMAIN gen.its : gen.its[i].written = 2

\* ---- C29
\* C29 as stated: izipChunkItems yields as many tuples as the shortest of
\* its iterables has items, none when it is given no iterable at all, and
\* ends.  With no iterable nothing ever sets bloop[0] to False: every round
\* yields the empty tuple, without end.
C29_YieldsShortest ==
    /\ gen.yielded <= (IF args.lens = <<>> THEN 0 ELSE ShortestLen(args.lens))
    /\ gen.state = "finished" =>
          gen.yielded = (IF args.lens = <<>> THEN 0 ELSE ShortestLen(args.lens))

\* the same for one iterable or more, which holds
C29_YieldsShortestOfSome ==
    args.lens # <<>> => C29_YieldsShortest

\* ---- C24
\* the pieces of the i-th axis of the traversal order, its size, and the
\* product of the sizes of the axes walked before it
PiecesOfAxis(i) == view.chunkIndex[Len(view.chunkIndex) + 1 - i]
SizeOfAxis(i) == At(args.shape, view.axesOrder[i])
Consumed(i) == SeqProd(Tup([j \in 1..(i - 1) |-> SizeOfAxis(j)]))
Fits(i, cap) == Consumed(i) * SizeOfAxis(i) <= cap
\* the first axis that does not fit, 0 when all fit
Boundary(cap) ==
    IF \A i \in DOMAIN view.axesOrder : Fits(i, cap) THEN 0
    ELSE CHOOSE i \in DOMAIN view.axesOrder :
            ~Fits(i, cap) /\ \A j \in 1..(i - 1) : Fits(j, cap)
IsWhole(pieces, N) == pieces = << [idx |-> sliceAll, n |-> N] >>
IsUnits(pieces, N) ==
    /\ Len(pieces) = N
    /\ \A k \in DOMAIN pieces : pieces[k].n = 1 /\ Expand(pieces[k].idx, N) = <<k - 1>>
Dense == view.built /\ ~view.masked

\* C24 as stated: every axis for which consumed * size <= capacity is one
\* whole piece, the first axis for which this fails is the only one that is
\* split into pieces longer than 1, and every axis after that one is split
\* into pieces of length 1.
C24_PhasesOfThePlanner ==
    Dense =>
        \A i \in DOMAIN view.axesOrder :
           /\ Fits(i, Capacity) => IsWhole(PiecesOfAxis(i), SizeOfAxis(i))
           /\ (Boundary(Capacity) # 0 /\ i > Boundary(Capacity)) =>
                 IsUnits(PiecesOfAxis(i), SizeOfAxis(i))

\* C24 (amended): every axis for which consumed * size <= capacity is one
\* whole piece; every other axis after the first such axis is split into
\* pieces of length 1, so that the first is the only one split into longer
\* pieces; and an axis after the first one that does not fit can fit again
\* only when an axis of size 0 has been walked (itself included), which
\* makes consumed * size 0.
C24_PhasesUnlessEmpty ==
    Dense =>
        \A i \in DOMAIN view.axesOrder :
           /\ Fits(i, Capacity) => IsWhole(PiecesOfAxis(i), SizeOfAxis(i))
           /\ (Boundary(Capacity) # 0 /\ i > Boundary(Capacity)) =>
                 IF Fits(i, Capacity)
                 THEN \E j \in 1..i : SizeOfAxis(j) = 0
                 ELSE IsUnits(PiecesOfAxis(i), SizeOfAxis(i))
           /\ (i # Boundary(Capacity) /\ ~Fits(i, Capacity)) =>
                 \A k \in DOMAIN PiecesOfAxis(i) : PiecesOfAxis(i)[k].n = 1

\* three order axes: one taken whole, one split in pieces longer than 1, one
\* in pieces of length 1
C24_Witness ==
    /\ Dense /\ Len(view.axesOrder) = 3
    /\ Boundary(Capacity) = 2
    /\ SizeOfAxis(1) > 1
    /\ \E k \in DOMAIN PiecesOfAxis(2) : PiecesOfAxis(2)[k].n > 1
    /\ SizeOfAxis(3) > 1 /\ IsUnits(PiecesOfAxis(3), SizeOfAxis(3))

\* ---- C25
\* C25: when the first axis that does not fit comes after axes that were
\* taken whole (consumed > 1), that axis of size N is split into exactly
\* n = ceil(N / (capacity // consumed)) consecutive pieces of length
\* ceil(N / n), but for the last which has what remains, and no piece is
\* longer than capacity // consumed.
C25_BoundaryAfterWholeAxes ==
    (Dense /\ Boundary(Capacity) # 0 /\ Consumed(Boundary(Capacity)) > 1) =>
        /\ PiecesOf(PiecesOfAxis(Boundary(Capacity)),
                    CeilDiv(SizeOfAxis(Boundary(Capacity)),
                            Capacity \div Consumed(Boundary(Capacity))),
                    CeilDiv(SizeOfAxis(Boundary(Capacity)),
                            CeilDiv(SizeOfAxis(Boundary(Capacity)),
                                    Capacity \div Consumed(Boundary(Capacity)))),
                    SizeOfAxis(Boundary(Capacity)))
        /\ \A k \in DOMAIN PiecesOfAxis(Boundary(Capacity)) :
              /\ PiecesOfAxis(Boundary(Capacity))[k].n >= 1
              /\ PiecesOfAxis(Boundary(Capacity))[k].n
                    <= Capacity \div Consumed(Boundary(Capacity))

\* the axis of size 51 after an axis of size 2 taken whole, with capacity
\* 80: pieces of 26 and 25
C25_Witness ==
    /\ Dense
    /\ args.shape = <<51, 2, 1>> /\ args.nMca = Some(80)
    /\ Boundary(Capacity) = 2 /\ Consumed(2) = 2
    /\ Tup([k \in DOMAIN PiecesOfAxis(2) |-> PiecesOfAxis(2)[k].n]) = <<26, 25>>

\* ---- C26
\* the plan of a View of capacity 1: an axis is whole when it fits and else
\* cut into pieces of length 1, and a mask gives one batch per coordinate
PlanOfCapacityOne ==
    IF view.masked
    THEN /\ Len(view.chunkIndex) = Len(MaskCoords(args.mask[1]))
         /\ \A k \in DOMAIN view.chunkIndex : view.chunkIndex[k].n = 1
         /\ view.bufferShape[1] = 1
    ELSE \A i \in DOMAIN view.axesOrder :
            /\ Fits(i, 1) => IsWhole(PiecesOfAxis(i), SizeOfAxis(i))
            /\ ~Fits(i, 1) => IsUnits(PiecesOfAxis(i), SizeOfAxis(i))
            /\ \A k \in DOMAIN PiecesOfAxis(i) :
                  SizeOfAxis(i) > 0 => PiecesOfAxis(i)[k].n >= 1

\* C26: with a row capacity of 0 or less the planners end and plan as for
\* capacity 1: the View is the one that capacity 1 gives, the pieces of a
\* non-empty axis and the batches of a mask have a length of at least 1.
C26_CapacityCoerced ==
    (view.built /\ args.nMca[1] <= 0) =>
        /\ view = MaskedViewInit(data, args.mask, Some(1), args.mcaAxis, args.mcaSlice,
                                 args.axesOrder, args.readonly, "python3",
                                 view.isNdarray)
        /\ PlanOfCapacityOne

\* capacity 0 and a mask of several coordinates
C26_Witness ==
    /\ view.built /\ view.masked
    /\ args.nMca = Some(0)
    /\ Len(view.chunkIndex) >= 2

\* ---- C27
\* the number of the piece of the i-th axis of the traversal order in the
\* chunk number k (from 0), when the pieces of the first axis vary fastest
PieceNumber(k, i) ==
    (k \div SeqProd(Tup([j \in 1..(i - 1) |-> Len(PiecesOfAxis(j))])))
        % Len(PiecesOfAxis(i))
Ascending(pieces, N) ==
    \A k \in 1..(Len(pieces) - 1) :
       \A a \in SeqRange(Expand(pieces[k].idx, N)), b \in SeqRange(Expand(pieces[k + 1].idx, N)) :
          a < b
InOrderOfAxes(chunks) ==
    /\ Len(chunks) = SeqProd(Tup([i \in DOMAIN view.axesOrder |-> Len(PiecesOfAxis(i))]))
    /\ \A k \in DOMAIN chunks :
          /\ \A i \in DOMAIN view.axesOrder :
                /\ At(chunks[k].idx, view.axesOrder[i])
                      = SliceIdx(PiecesOfAxis(i)[PieceNumber(k - 1, i) + 1].idx)
                /\ At(chunks[k].shape, view.axesOrder[i])
                      = PiecesOfAxis(i)[PieceNumber(k - 1, i) + 1].n
          /\ At(chunks[k].idx, ChanAxis) = SliceIdx(view.mcaSlice)
          /\ chunks[k].n
                = SeqProd(Tup([i \in DOMAIN view.axesOrder |->
                                 PiecesOfAxis(i)[PieceNumber(k - 1, i) + 1].n]))

\* C27: the dense chunks come in the order in which the pieces of the first
\* axis of the traversal order vary fastest and those of the last vary
\* slowest, the pieces of an axis in ascending order of index; the default
\* traversal order starts with the last non-channel dimension; the count of
\* a chunk is the product of the lengths of its pieces on the order axes.
C27_DenseOrder ==
    Dense =>
        /\ InOrderOfAxes(ViewChunks)
        /\ \A i \in DOMAIN view.axesOrder : Ascending(PiecesOfAxis(i), SizeOfAxis(i))
        /\ args.axesOrder = None => view.axesOrder = Reverse(OrderAxesSorted)

\* two order axes in the default order, both cut in two pieces or more
C27_Witness ==
    /\ Dense /\ args.axesOrder = None
    /\ Len(view.axesOrder) = 2
    /\ Len(PiecesOfAxis(1)) >= 2 /\ Len(PiecesOfAxis(2)) >= 2
    /\ InOrderOfAxes(ViewChunks)

\* ---- C28
\* the chunk a step of the generator has read and yielded
YieldsChunk == gen'.state = "suspended" /\ Len(Reads(log')) > Len(Reads(log))
\* a step of the generator past the yield of a chunk it has to write back
PassesYield ==
    /\ gen.state = "suspended" /\ gen.post_copy
    /\ gen' # gen /\ gen'.state # "closed"
\* the chunk number k of the generator g
ChunkOf(g) == At(g.chunks, g.k)
\* value holds, row after row and channel after channel, the elements of
\* dat at the positions cells
HoldsCells(value, dat, cells) ==
    /\ Len(value.flat) = Len(cells)
    /\ \A i \in DOMAIN cells : value.flat[i] = dat.flat[cells[i]]
\* what the direct indexing reads of dat for the chunk of g, and dat after
\* the direct indexing wrote value back for it
DirectRead(dat, g) == ReadChunk(dat, ChunkOf(g), g.transposeAxes, g.nChan)
DirectWrite(dat, g, value) ==
    SetItem(dat, ChunkOf(g).idx,
            WriteValue(value, ChunkOf(g), g.transposeAxes, g.itransposeAxes))

\* C28: a yielded buffer has the rows of the chunk on axis 0 and the
\* selected channels on axis 1, row r holding the spectrum of the chunk's
\* r-th coordinate wherever the channel axis of the source is; the access
\* one coordinate at a time, taken for a masked View of more than one order
\* axis on a source that is no numpy array, reads the values the direct
\* indexing reads and leaves the source as the direct write-back leaves it.
\* (The plan of the View, of which ChunkCells is a function, is the same
\* before and after a step of the generator.)
C28_LayoutAndFallback ==
    [][/\ YieldsChunk =>
            /\ Deref(heap', consumer'.held).shape = <<ChunkOf(gen').n, gen'.nChan>>
            /\ HoldsCells(Deref(heap', consumer'.held), data', ChunkCells(gen'.k))
            /\ gen'.h5pyMultiList =>
                  /\ CanReadChunk(data', ChunkOf(gen'), gen'.transposeAxes, gen'.nChan)
                  /\ Deref(heap', consumer'.held) = DirectRead(data', gen')
       /\ (PassesYield /\ gen.h5pyMultiList) =>
            /\ CanWriteChunk(data, Deref(heap, consumer.held), ChunkOf(gen),
                             gen.transposeAxes, gen.itransposeAxes)
            /\ data' = DirectWrite(data, gen, Deref(heap, consumer.held))
            /\ Len(Writes(log')) = Len(Writes(log)) + 1]_vars

\* a masked View of two order axes on a source that is no numpy array,
\* the channel axis not being the last: a chunk of two rows or more that
\* the consumer changed was written back one coordinate at a time, and the
\* next chunk is held
C28_Witness ==
    /\ view.masked /\ ~view.isNdarray /\ ~view.readonly
    /\ Len(view.axesOrder) = 2
    /\ ChanAxis # Len(args.shape) - 1
    /\ gen.state = "suspended" /\ gen.h5pyMultiList /\ gen.k >= 1
    /\ At(gen.chunks, gen.k - 1).n >= 2
    /\ PartlyChanged(data.flat, ChunkCells(gen.k - 1))
    /\ HoldsCells(Deref(heap, consumer.held), data, ChunkCells(gen.k))

\* ---- C30
\* the lock is held exactly while a buffer context is entered and not left
LockHeld == view.init_buffer <=> gen # <<>>
\* a step that is an assignment to one of the settings
Assigns == ret'.fn = "set" /\ <<view, ret, pass>>' # <<view, ret, pass>>
\* the assignment stored what the setter of some setting stores
AssignedSome ==
    \E name \in LockedSettings : \E value \in AssignedValues(name) :
        view' = [view EXCEPT !.settings[name] = StoredValue(name, value)]

\* C30: the lock of the OutputBuffer is held exactly while a buffer context
\* is active, the save() that saveContext runs on exit included: a nested
\* context is entered without an error and its exit leaves the lock held,
\* the exit of the outermost context, normal or through an exception,
\* releases it. While the lock is held an assignment to outputRoot,
\* fileEntry, fileProcess, edf, tif, csv, saveData, saveFit, saveResiduals
\* or overwrite raises RuntimeError('Buffer is locked') and changes nothing;
\* when it is not held the assignment goes through.
C30_BufferLock ==
    /\ []LockHeld
    /\ [][/\ Assigns =>
               IF gen # <<>>
               THEN /\ ret' = Raised("set", RuntimeError("Buffer is locked"))
                    /\ view' = view
               ELSE ret' = Returned("set") /\ AssignedSome
          /\ (view.init_buffer /\ Len(gen') > Len(gen)) => ret'.err = ""]_vars

\* inside a _bufferContext a saveContext was entered, its body has ended
\* and its save() runs: an assignment made now has raised
C30_Witness ==
    /\ Len(gen) = 3
    /\ gen[1].kind = "buffer" /\ gen[1].owner
    /\ gen[2].kind = "save" /\ gen[2].exiting
    /\ gen[3].kind = "saving"
    /\ ret = Raised("set", RuntimeError("Buffer is locked"))
    /\ view.init_buffer

====
